---- MODULE Spec2Model ----
(***************************************************************************)
(* Verification model of github.com/DataDog/appsec-internal-go, package    *)
(* apisec/internal/timed: the open-addressing table (table.go) and the     *)
(* deduplicator (LRU / Set) that owns it and answers Hit(key).             *)
(*                                                                         *)
(* table.go is modelled from its source.  The deduplicator's source file   *)
(* is not part of the examined tree (only its tests are): NewLRU, NewSet   *)
(* and Hit are modelled from section 4.3 of the specification.             *)
(*                                                                         *)
(* Scaling.  The packed entryData word is two uint32 halves; here a half   *)
(* is a number modulo TimeMod, and the word is atime * TimeMod + stime, so *)
(* shifts and masks become multiplication, division and remainder.  The    *)
(* table has `capacity` probe slots plus one overflow slot.                *)
(*                                                                         *)
(* Further down: SamplingKey.hash of package apisec, package               *)
(* apisec/internal/ccache (buckets, recency list, worker goroutine,        *)
(* control channel) and the Sampler built on it, all from their sources;   *)
(* maxCount, itemsToPrune and the queue sizes are scaled per run.  An item *)
(* is a number, its list node carries the same number, 0 is nil.           *)
(*                                                                         *)
(* Last: WAFTimeoutFromEnv and RateLimitFromEnv of package appsec, with    *)
(* strconv.ParseUint and time.ParseDuration followed step by step on       *)
(* values that are sequences of characters, at a scaled integer width.     *)
(***************************************************************************)
EXTENDS Integers, Sequences, FiniteSets, TLC

VARIABLES
    config      \* the scaled constants and the key range of this run

\* ------------------------------------------------------------ constants

\* config.MaxItemCount (4096 in the source), scaled per specification.
MaxItemCount == config.MaxItemCount

\* Number of probe slots of a table (the package constant `capacity`), scaled
\* per specification; always above MaxItemCount, so that the rebuild trigger
\* (count > MaxItemCount) can fire before every probe slot is taken.
capacity == config.capacity

\* Scale of the concurrent specifications.
SmallConfig ==
    [MaxItemCount |-> 2, capacity |-> 3, maxKey |-> 0, zeroKeys |-> {},
     ordered |-> FALSE, race |-> FALSE, seq |-> FALSE, watch |-> FALSE]

\* Scale of the ordered-keys specification: a rebuild keeps two entries.
WideConfig ==
    [MaxItemCount |-> 3, capacity |-> 4, maxKey |-> 0, zeroKeys |-> {},
     ordered |-> FALSE, race |-> FALSE, seq |-> FALSE, watch |-> FALSE]

\* Modulus of one half of the packed word (2^32 in the source), scaled.
TimeMod == 64

\* The interval the deduplicators of the Hit specifications are built with,
\* in seconds (30 in the tests, scaled).
Interval == 2

\* One second, in the unit of a duration (milliseconds here).
Second == 1000

\* NewSet accepts intervals from MinSetSeconds to MaxSetSeconds seconds.
MinSetSeconds == 1
MaxSetSeconds == 30

\* ------------------------------------------------------------ bounds

\* Largest key a caller passes to Hit.
MaxKey == 3

\* First value of the clock (Unix seconds, at least the interval).
StartClock == 2

\* Number of clock ticks explored in the sequential specification.
MaxSeqTicks == 2

\* Number of clock ticks explored in the concurrent specification.
MaxTicks == 2

\* Number of Hit calls explored in the concurrent specification.
MaxHits == 4

\* Number of Hit calls explored in the sequential specification.
MaxSeqHits == 4

\* Number of threads in the concurrent specification.
NumProcs == 2

\* Number of threads in the racing specification.
RaceProcs == 3

\* Number of Hit calls explored in the racing specification.
MaxRaceHits == 3

\* Number of clock ticks explored in the racing specification.
MaxRaceTicks == 1

\* Largest key of the ordered-keys specification (keys 0, 1, 2, ... in order).
MaxOrderedKey == 7

\* Hit calls and clock ticks on the table that starts filled to its limit.
MaxFilledHits == 3
MaxFilledTicks == 1

\* Largest whole number of seconds of an interval passed to a constructor.
MaxSeconds == 65

\* ------------------------------------------------------------ entryData

\* table.go:138-142
newEntryData(atime, stime) == atime * TimeMod + stime

\* table.go:144-147
AccessTime(d) == d \div TimeMod

\* table.go:149-152
SampleTime(d) == d % TimeMod

\* A faulty WithAccessTime that also overwrites the sample time half.
WithAccessTimeClobber(d, atime) == atime * TimeMod + atime

\* A faulty WithAccessTime whose mask drops the sample time half.
WithAccessTimeDropSample(d, atime) == atime * TimeMod

\* A faulty WithAccessTime that writes the time into the sample-time half.
WithAccessTimeLowHalf(d, atime) == (d \div TimeMod) * TimeMod + atime

\* table.go:161-165
WithAccessTime(d, atime) == (d % TimeMod) + atime * TimeMod

\* table.go:154-159
LastAccessKept(d) == AccessTime(d) # 0 /\ AccessTime(d) = SampleTime(d)

\* ------------------------------------------------------------ table

Slots == 0..capacity

\* The zero value of an entry: free key, zero data.
emptyEntry == [Key |-> 0, Data |-> 0]

\* The zero value of a table (&table{}).
emptyTable == [entries |-> [i \in Slots |-> emptyEntry], count |-> 0]

RECURSIVE probeNoWrap(_, _, _, _, _)
\* A faulty probing loop that walks on past the last probe slot instead of
\* wrapping to slot 0.
probeNoWrap(t, key, origIdx, idx, n) ==
    LET curKey == t.entries[idx].Key IN
    IF curKey = 0 \/ curKey = key
    THEN [idx |-> idx, exists |-> curKey = key, probes |-> n]
    ELSE probeNoWrap(t, key, origIdx, idx + 1, n + 1)

RECURSIVE probeBackwards(_, _, _, _, _)
\* A faulty probing loop that steps to the previous slot instead of the next.
probeBackwards(t, key, origIdx, idx, n) ==
    LET curKey == t.entries[idx].Key IN
    IF curKey = 0 \/ curKey = key
    THEN [idx |-> idx, exists |-> curKey = key, probes |-> n]
    ELSE LET nidx == (idx + capacity - 1) % capacity IN
         IF nidx = origIdx
         THEN [idx |-> capacity, exists |-> TRUE, probes |-> n]
         ELSE probeBackwards(t, key, origIdx, nidx, n + 1)

RECURSIVE probeKeyAtHome(_, _, _, _, _)
\* A faulty probing loop that recognises the key at its first slot only.
probeKeyAtHome(t, key, origIdx, idx, n) ==
    LET curKey == t.entries[idx].Key IN
    IF curKey = 0 \/ (curKey = key /\ idx = origIdx)
    THEN [idx |-> idx, exists |-> curKey = key, probes |-> n]
    ELSE LET nidx == (idx + 1) % capacity IN
         IF nidx = origIdx
         THEN [idx |-> capacity, exists |-> TRUE, probes |-> n]
         ELSE probeKeyAtHome(t, key, origIdx, nidx, n + 1)

RECURSIVE probe(_, _, _, _, _)
\* table.go:65-77, the probing loop of FindEntry; n counts the slots read
probe(t, key, origIdx, idx, n) ==
    LET curKey == t.entries[idx].Key IN
    IF curKey = 0 \/ curKey = key
    THEN [idx |-> idx, exists |-> curKey = key, probes |-> n]
    ELSE LET nidx == (idx + 1) % capacity IN
         IF nidx = origIdx
         THEN [idx |-> capacity, exists |-> TRUE, probes |-> n]
         ELSE probe(t, key, origIdx, nidx, n + 1)

RECURSIVE probeFree(_, _, _, _, _)
\* A faulty probing loop that stops at free slots only, never at the key.
probeFree(t, key, origIdx, idx, n) ==
    IF t.entries[idx].Key = 0
    THEN [idx |-> idx, exists |-> FALSE, probes |-> n]
    ELSE LET nidx == (idx + 1) % capacity IN
         IF nidx = origIdx
         THEN [idx |-> capacity, exists |-> TRUE, probes |-> n]
         ELSE probeFree(t, key, origIdx, nidx, n + 1)

\* A faulty FindEntry that never recognises a key already in the table.
FindEntryFirstFree(t, key) ==
    probeFree(t, key, key % capacity, key % capacity, 1)

\* A faulty FindEntry without probing: an occupied home slot is taken for
\* the key's own entry.
FindEntryNoProbe(t, key) ==
    [idx |-> key % capacity, exists |-> t.entries[key % capacity].Key # 0,
     probes |-> 1]

RECURSIVE probeBadExit(_, _, _, _)
\* A faulty probing loop that only stops wrapping at slot 0; it is cut off
\* after 2 * capacity slots.
probeBadExit(t, key, idx, n) ==
    LET curKey == t.entries[idx].Key IN
    IF curKey = 0 \/ curKey = key
    THEN [idx |-> idx, exists |-> curKey = key, probes |-> n]
    ELSE LET nidx == (idx + 1) % capacity IN
         IF nidx = 0 /\ n >= 2 * capacity
         THEN [idx |-> capacity, exists |-> TRUE, probes |-> n]
         ELSE probeBadExit(t, key, nidx, n + 1)

\* A faulty FindEntry whose loop does not stop after one full circle.
FindEntryBadExit(t, key) == probeBadExit(t, key, key % capacity, 1)

\* table.go:58-81
FindEntry(t, key) == probe(t, key, key % capacity, key % capacity, 1)

\* ------------------------------------------------------------ heap
\* sortedEntries is a Go slice; index i of the slice is index i + 1 here.

\* A faulty order that puts the lowest access time on top of the heap.
LessOldestFirst(h, i, j) == AccessTime(h[i + 1].Data) < AccessTime(h[j + 1].Data)

\* table.go:174-181
Less(h, i, j) == AccessTime(h[i + 1].Data) > AccessTime(h[j + 1].Data)

\* table.go:183-186
Swap(h, i, j) == [h EXCEPT ![i + 1] = h[j + 1], ![j + 1] = h[i + 1]]

RECURSIVE up(_, _)
\* container/heap up(), as driven by sortedEntries
up(h, j) ==
    LET i == (j - 1) \div 2 IN
    IF j = 0 \/ i = j \/ ~Less(h, j, i)
    THEN h
    ELSE up(Swap(h, i, j), i)

RECURSIVE down(_, _, _)
\* container/heap down(), as driven by sortedEntries
down(h, i, n) ==
    LET j1 == 2 * i + 1 IN
    IF j1 >= n
    THEN h
    ELSE LET j2 == j1 + 1
             j  == IF j2 < n /\ Less(h, j2, j1) THEN j2 ELSE j1
         IN IF ~Less(h, j, i)
            THEN h
            ELSE down(Swap(h, i, j), j, n)

\* heap.Push with sortedEntries.Push (table.go:188-191)
heapPush(h, x) == up(Append(h, x), Len(h))

\* heap.Pop with sortedEntries.Pop (table.go:193-198): the heap after the pop
heapPopRest(h) ==
    LET n == Len(h) - 1 IN SubSeq(down(Swap(h, 0, n), 0, n), 1, n)

\* heap.Pop with sortedEntries.Pop (table.go:193-198): the popped entry
heapPopTop(h) == h[1]

\* ------------------------------------------------------------ PrunedCopy

\* table.go:113-119
Copyable(e) == [Key |-> e.Key, Data |-> e.Data]

RECURSIVE collectKeepExpired(_, _, _, _)
\* A faulty scan with the expiry comparison reversed: it keeps the entries
\* sampled before the threshold and drops the later ones.
collectKeepExpired(t, threshold, i, h) ==
    IF i > capacity
    THEN h
    ELSE LET e == t.entries[i] IN
         IF e.Key = 0 \/ SampleTime(e.Data) > threshold
         THEN collectKeepExpired(t, threshold, i + 1, h)
         ELSE collectKeepExpired(t, threshold, i + 1, heapPush(h, Copyable(e)))

RECURSIVE collect(_, _, _, _)
\* table.go:87-96: scan of every entry (overflow slot included) into the heap
collect(t, threshold, i, h) ==
    IF i > capacity
    THEN h
    ELSE LET e == t.entries[i] IN
         IF e.Key = 0 \/ SampleTime(e.Data) < threshold
         THEN collect(t, threshold, i + 1, h)
         ELSE collect(t, threshold, i + 1, heapPush(h, Copyable(e)))

\* A faulty retention limit: every slot of the table.
keepCountAll == capacity + 1

\* The number of entries a rebuild retains (table.go:101).
keepCount == (MaxItemCount * 2) \div 3

RECURSIVE reinsertNoCount(_, _, _)
\* A faulty insertion loop that never increments its counter.
reinsertNoCount(h, nt, count) ==
    IF Len(h) = 0 \/ ~(count < keepCount)
    THEN [nt EXCEPT !.count = count]
    ELSE LET e    == heapPopTop(h)
             slot == FindEntry(nt, e.Key).idx
         IN reinsertNoCount(heapPopRest(h),
                     [nt EXCEPT !.entries[slot] = [Key |-> e.Key, Data |-> e.Data]],
                     count)

RECURSIVE reinsert(_, _, _)
\* table.go:98-108: pop the most recent entries into a fresh table
reinsert(h, nt, count) ==
    IF Len(h) = 0 \/ ~(count < keepCount)
    THEN [nt EXCEPT !.count = count]
    ELSE LET e    == heapPopTop(h)
             slot == FindEntry(nt, e.Key).idx
         IN reinsert(heapPopRest(h),
                     [nt EXCEPT !.entries[slot] = [Key |-> e.Key, Data |-> e.Data]],
                     count + 1)

\* table.go:83-111
PrunedCopy(t, threshold) ==
    reinsert(collect(t, threshold, 0, <<>>), emptyTable, 0)

\* ------------------------------------------------------------ state

\* Threads that may call Hit.
Procs == 1..RaceProcs

\* Keys a caller may pass to Hit.
Keys == 0..config.maxKey

VARIABLES
    tables,     \* every table built so far; tables[1] is the one of construction
    current,    \* index in `tables` of the table the deduplicator points to
    rebuilding, \* the single-flight rebuild flag
    zeroKey,    \* the non-zero placeholder key 0 is remapped to
    dedup,      \* the constructor's outcome: kind, argument, interval, panic
    clock,      \* the clock function's current value, in seconds
    th,         \* per thread: position in Hit and its local variables
    procs,      \* the threads of this run
    hitsLeft,   \* Hit calls still to be started in this run
    ticksLeft,  \* clock ticks still to happen in this run
    pos,        \* per thread: number of Hit calls it has started
    seen,       \* history: the keys callers have passed to Hit
    lastAcc,    \* history: per table key, clock value of the last accepted Hit
    accepted,   \* history: per table key, the clock values of accepted Hits
    dupAccept,  \* history: some key was accepted twice at one clock value
    staleAcc    \* history: a Hit was accepted after the clock left the value it read

VARIABLES
    hk,          \* the keys SamplingKey.hash was last called on, and the bytes hashed
    cc,          \* the cache's constants and the shape of this run
    items,       \* every Item allocated so far: key, value, deleted, node
    buckets,     \* per bucket: lookup, the item stored for each key (0: none)
    list,        \* the recency list: Head, Tail and every node's Next and Prev
    count,       \* the worker's item count
    deletables,  \* the deletion queue
    promotables, \* the promotion queue
    control,     \* the control channel: its buffer and whether it was closed
    wk,          \* the worker goroutine: position and local variables
    cl,          \* per client goroutine: position and local variables
    msNow,       \* the sampler's clock, in milliseconds since the epoch
    hist,        \* history of the cache operations of this run
    env,         \* the process environment and the outcome of the last reader called
    fakeClock    \* testutil.FakeClock: its fields, the ticker and the goroutines using it

\* The state of the apisec key hashing, of the ccache package and of the
\* appsec configuration readers.
rest == <<hk, cc, items, buckets, list, count, deletables, promotables, control,
          wk, cl, msNow, hist, env, fakeClock>>

\* The timed package's state.
timed == <<config, tables, current, rebuilding, zeroKey, dedup, clock, th, procs,
           hitsLeft, ticksLeft, pos, seen, lastAcc, accepted, dupAccept, staleAcc>>

vars == <<config, tables, current, rebuilding, zeroKey, dedup, clock, th, procs,
          hitsLeft, ticksLeft, pos, seen, lastAcc, accepted, dupAccept, staleAcc,
          rest>>

\* No cache constructed and no sampler running.
ccacheOff ==
    /\ cc = [on |-> FALSE]
    /\ items = <<>>
    /\ buckets = <<>>
    /\ list = [Head |-> 0, Tail |-> 0]
    /\ count = 0
    /\ deletables = <<>>
    /\ promotables = <<>>
    /\ control = [buf |-> <<>>, closed |-> FALSE]
    /\ wk = [pc |-> "none"]
    /\ cl = <<>>
    /\ msNow = 0
    /\ hist = [on |-> FALSE]

\* No key hashed, no cache constructed and no environment read.
restOff ==
    /\ hk = [called |-> FALSE]
    /\ ccacheOff
    /\ env = [on |-> FALSE] /\ fakeClock = [on |-> FALSE]

\* lastAcc values that are not clock values.
Never == -1
Rebuilt == -2

\* Local variables of a thread outside Hit.
idleThread ==
    [pc |-> "idle", ukey |-> 0, key |-> 0, t |-> 0, now |-> 0, slot |-> 0,
     cur |-> 0, res |-> FALSE, prev |-> Never,
     nt |-> emptyTable, probes |-> 0, first |-> FALSE, fresh |-> FALSE,
     new |-> FALSE, full |-> FALSE, peer |-> FALSE, dist |-> FALSE,
     gone |-> FALSE, lost |-> FALSE, lostAcc |-> FALSE, peerTrue |-> FALSE]

\* Keys as stored in a table: the caller's non-zero keys and the placeholder.
TableKeys == 1..(config.maxKey + 2 * capacity)

\* State after NewLRU / NewSet with a valid interval: one empty table, no
\* rebuild in flight, a non-zero placeholder for key 0.
InitAt(cfg, ps, hits, ticks, start) ==
    /\ config = cfg
    /\ pos = [p \in Procs |-> 0]
    /\ seen = {}
    /\ tables = <<emptyTable>>
    /\ current = 1
    /\ rebuilding = FALSE
    /\ zeroKey \in cfg.zeroKeys
    /\ dedup = [kind |-> "LRU", arg |-> Interval * Second,
                intervalSeconds |-> Interval, panic |-> ""]
    /\ clock = start
    /\ th = [p \in Procs |-> idleThread]
    /\ procs = ps
    /\ hitsLeft = hits
    /\ ticksLeft = ticks
    /\ lastAcc = [k \in TableKeys |-> Never]
    /\ accepted = [k \in TableKeys |-> {}]
    /\ dupAccept = FALSE
    /\ staleAcc = FALSE
    /\ restOff

\* The same, the clock starting at StartClock.
InitWith(cfg, ps, hits, ticks) == InitAt(cfg, ps, hits, ticks, StartClock)

\* Wrapping subtraction of two halves of the packed word (uint32 in the source).
SubU(a, b) == (a - b + TimeMod) % TimeMod

\* elapsed: the interval has passed between sample time stime and now.
Elapsed(now, stime) == SubU(now, stime) >= dedup.intervalSeconds

\* History: at the start of a call, its key is new in table t or the interval
\* of its entry has elapsed.
FreshAt(t, key, now) ==
    LET r == FindEntry(tables[t], key) IN
    IF r.exists /\ r.idx # capacity
    THEN Elapsed(now, SampleTime(tables[t].entries[r.idx].Data))
    ELSE TRUE

\* History: at the start of a call, its key is absent from table t and no
\* probe slot of t is empty.
FullAt(t, key) ==
    LET r == FindEntry(tables[t], key) IN r.exists /\ r.idx = capacity

\* History: thread r has written slot s of its table.  Every other call in
\* flight on that table with another key or another clock value that uses
\* slot s, or has not located its slot yet, is marked as disturbed.
Disturb(f, r, s) ==
    [p \in Procs |->
        IF /\ config.race
           /\ p # r
           /\ f[p].pc \in {"find", "claim", "load", "cas"}
           /\ f[p].t = f[r].t
           /\ (f[p].key # f[r].key \/ f[p].now # f[r].now)
           /\ (f[p].pc = "find" \/ f[p].slot = s)
        THEN [f[p] EXCEPT !.dist = TRUE]
        ELSE f[p]]

\* History: thread r starts a call on table key `key`.  Every call in flight
\* on that key has a concurrent call on its own key.
Meet(f, r, key) ==
    [p \in Procs |->
        IF config.race /\ p # r /\ f[p].pc # "idle" /\ f[p].key = key
        THEN [f[p] EXCEPT !.peer = TRUE]
        ELSE f[p]]

\* History: thread r returns.  Every call in flight on the same key, table
\* and clock value has lost a member of its group.
Leave(f, r) ==
    [p \in Procs |->
        IF /\ config.race
           /\ p # r
           /\ f[p].pc # "idle"
           /\ f[p].t = f[r].t /\ f[p].key = f[r].key /\ f[p].now = f[r].now
        THEN [f[p] EXCEPT !.gone = TRUE]
        ELSE f[p]]

\* History: thread r has taken a sample.  Every other call in flight on the
\* same key overlaps a call that returns true.
Sampled(f, r) ==
    [p \in Procs |->
        IF config.watch /\ p # r /\ f[p].pc # "idle" /\ f[p].key = f[r].key
        THEN [f[p] EXCEPT !.peerTrue = TRUE]
        ELSE f[p]]

\* The table a thread works on.
TableOf(p) == tables[th[p].t]

\* History update made by the Hit of thread p that is accepted at its `now`.
Accept(p) ==
    LET k == th[p].key
        n == th[p].now
    IN /\ lastAcc' = [lastAcc EXCEPT ![k] = n]
       /\ accepted' = [accepted EXCEPT ![k] = @ \cup {n}]
       /\ dupAccept' = (dupAccept \/ n \in accepted[k])
       /\ staleAcc' = (staleAcc \/ n # clock % TimeMod)

NoAccept == UNCHANGED <<lastAcc, accepted, dupAccept, staleAcc>>

\* ------------------------------------------------------------ Hit

\* Step 1: remap key 0, load the current table, read the clock.
HitBegin(p, k) ==
    /\ p \in procs
    /\ th[p].pc = "idle"
    /\ hitsLeft > 0
    /\ config.ordered => (k = pos[p] /\ clock = StartClock + pos[p])
    /\ hitsLeft' = hitsLeft - 1
    /\ pos' = IF config.ordered THEN [pos EXCEPT ![p] = @ + 1] ELSE pos
    /\ LET key == IF k = 0 THEN zeroKey ELSE k IN
       th' = [Meet(th, p, key) EXCEPT ![p] = [idleThread EXCEPT
                  !.pc = "find", !.ukey = k, !.key = key, !.t = current,
                  !.now = clock % TimeMod, !.prev = lastAcc[key],
                  !.first = k \notin seen,
                  !.fresh = config.race /\ FreshAt(current, key, clock % TimeMod),
                  !.new = config.race /\ ~FindEntry(tables[current], key).exists,
                  !.full = config.race /\ FullAt(current, key),
                  !.peer = config.race /\ \E q \in procs \ {p} :
                               th[q].pc # "idle" /\ th[q].key = key,
                  !.peerTrue = config.watch /\ \E q \in procs \ {p} :
                               th[q].pc # "idle" /\ th[q].key = key /\ th[q].res]]
    /\ seen' = IF config.seq THEN seen \cup {k} ELSE seen
    /\ NoAccept
    /\ UNCHANGED <<rest, config, tables, current, rebuilding, zeroKey, dedup, clock, procs, ticksLeft>>

\* Step 2: findEntry.
HitFind(p) ==
    /\ p \in procs
    /\ th[p].pc = "find"
    /\ LET r == FindEntry(TableOf(p), th[p].key) IN
       th' = [th EXCEPT ![p].slot = r.idx, ![p].probes = r.probes,
                        ![p].pc = IF r.exists THEN "load" ELSE "claim"]
    /\ NoAccept
    /\ UNCHANGED <<rest, config, tables, current, rebuilding, zeroKey, dedup, clock, procs, hitsLeft,
                   ticksLeft, pos, seen>>

\* Step 3: the slot was found empty; install the entry by compare-and-swap
\* from the empty sentinel.  The winner has sampled; a loser goes on to step 4.
HitClaim(p) ==
    /\ p \in procs
    /\ th[p].pc = "claim"
    /\ LET t == th[p].t
           s == th[p].slot
           n == th[p].now
       IN IF tables[t].entries[s].Data = 0
          THEN /\ tables' = [tables EXCEPT
                      ![t].entries[s] = [Key |-> th[p].key, Data |-> newEntryData(n, n)],
                      ![t].count = @ + 1]
               /\ th' = Sampled(Disturb([th EXCEPT ![p].res = TRUE,
                                                   ![p].pc = "check"], p, s), p)
               /\ Accept(p)
          ELSE /\ th' = [th EXCEPT ![p].pc = "load"]
               /\ NoAccept
               /\ UNCHANGED tables
    /\ UNCHANGED <<rest, config, current, rebuilding, zeroKey, dedup, clock, procs, hitsLeft,
                   ticksLeft, pos, seen>>

\* Step 4, first half: read the packed word of the slot.
HitLoad(p) ==
    /\ p \in procs
    /\ th[p].pc = "load"
    /\ th' = [th EXCEPT ![p].cur = TableOf(p).entries[th[p].slot].Data,
                        ![p].pc = "cas"]
    /\ NoAccept
    /\ UNCHANGED <<rest, config, tables, current, rebuilding, zeroKey, dedup, clock, procs, hitsLeft,
                   ticksLeft, pos, seen>>

\* Step 4, second half: one compare-and-swap on the packed word, either to
\* (now, now) when the interval has elapsed, or to bump the access time.
HitCas(p) ==
    /\ p \in procs
    /\ th[p].pc = "cas"
    /\ LET t == th[p].t
           s == th[p].slot
           n == th[p].now
           c == th[p].cur
           elapsed == Elapsed(n, SampleTime(c))
           new == IF elapsed THEN newEntryData(n, n) ELSE WithAccessTime(c, n)
       IN IF tables[t].entries[s].Data = c
          THEN /\ tables' = [tables EXCEPT ![t].entries[s].Data = new]
               /\ th' = LET f == Disturb([th EXCEPT ![p].res = elapsed,
                                                    ![p].pc = "check"], p, s)
                        IN  IF elapsed THEN Sampled(f, p) ELSE f
               /\ IF elapsed THEN Accept(p) ELSE NoAccept
          ELSE /\ th' = [th EXCEPT ![p].res = FALSE, ![p].pc = "done",
                                    ![p].lostAcc = config.watch /\ elapsed]
               /\ NoAccept
               /\ UNCHANGED tables
    /\ UNCHANGED <<rest, config, current, rebuilding, zeroKey, dedup, clock, procs, hitsLeft,
                   ticksLeft, pos, seen>>

\* A faulty step 5 that starts a rebuild without the compare-and-swap on the
\* flag.
HitCheckNoCas(p) ==
    /\ p \in procs
    /\ th[p].pc = "check"
    /\ IF TableOf(p).count > MaxItemCount
       THEN /\ rebuilding' = TRUE
            /\ th' = [th EXCEPT ![p].pc = "prune"]
       ELSE /\ th' = [th EXCEPT ![p].pc = "done"]
            /\ UNCHANGED rebuilding
    /\ NoAccept
    /\ UNCHANGED <<rest, config, tables, current, zeroKey, dedup, clock, procs, hitsLeft,
                   ticksLeft, pos, seen>>

\* A faulty step 5 that never starts a rebuild.
HitCheckSkip(p) ==
    /\ p \in procs
    /\ th[p].pc = "check"
    /\ th' = [th EXCEPT ![p].pc = "done"]
    /\ UNCHANGED rebuilding
    /\ NoAccept
    /\ UNCHANGED <<rest, config, tables, current, zeroKey, dedup, clock, procs, hitsLeft,
                   ticksLeft, pos, seen>>

\* Step 5: after an insert or update, try to become the rebuilder when the
\* table holds more than MaxItemCount items.
HitCheck(p) ==
    /\ p \in procs
    /\ th[p].pc = "check"
    /\ IF TableOf(p).count > MaxItemCount /\ ~rebuilding
       THEN /\ rebuilding' = TRUE
            /\ th' = [th EXCEPT ![p].pc = "prune"]
       ELSE /\ th' = [th EXCEPT ![p].pc = "done",
                                 ![p].lost = TableOf(p).count > MaxItemCount]
            /\ UNCHANGED rebuilding
    /\ NoAccept
    /\ UNCHANGED <<rest, config, tables, current, zeroKey, dedup, clock, procs, hitsLeft,
                   ticksLeft, pos, seen>>

\* A faulty rebuild whose PrunedCopy does not allocate a new table: it
\* inserts the entries it retains into the table it scanned and stores the
\* count there.
HitPruneInPlace(p) ==
    /\ p \in procs
    /\ th[p].pc = "prune"
    /\ LET src == TableOf(p)
           nt == reinsert(collect(src, SubU(th[p].now, dedup.intervalSeconds), 0, <<>>),
                          src, 0)
       IN  /\ tables' = [tables EXCEPT ![th[p].t] = nt]
           /\ th' = [th EXCEPT ![p].nt = nt, ![p].pc = "publish"]
    /\ NoAccept
    /\ UNCHANGED <<rest, config, current, rebuilding, zeroKey, dedup, clock, procs, hitsLeft,
                   ticksLeft, pos, seen>>

\* Step 5, the rebuilder computes the pruned copy of the table it loaded.
HitPrune(p) ==
    /\ p \in procs
    /\ th[p].pc = "prune"
    /\ th' = [th EXCEPT ![p].nt = PrunedCopy(TableOf(p), SubU(th[p].now, dedup.intervalSeconds)),
                        ![p].pc = "publish"]
    /\ NoAccept
    /\ UNCHANGED <<rest, config, tables, current, rebuilding, zeroKey, dedup, clock, procs, hitsLeft,
                   ticksLeft, pos, seen>>

\* A faulty publication that leaves the rebuilding flag set.
HitPublishKeepFlag(p) ==
    /\ p \in procs
    /\ th[p].pc = "publish"
    /\ tables' = Append(tables, th[p].nt)
    /\ current' = Len(tables) + 1
    /\ UNCHANGED rebuilding
    /\ th' = [th EXCEPT ![p].nt = emptyTable, ![p].pc = "done"]
    /\ lastAcc' = [k \in TableKeys |-> IF lastAcc[k] = Never THEN Never ELSE Rebuilt]
    /\ UNCHANGED <<accepted, dupAccept, staleAcc>>
    /\ UNCHANGED <<rest, config, zeroKey, dedup, clock, procs, hitsLeft, ticksLeft, pos, seen>>

\* Step 5, the rebuilder publishes the copy and clears the flag.
HitPublish(p) ==
    /\ p \in procs
    /\ th[p].pc = "publish"
    /\ tables' = Append(tables, th[p].nt)
    /\ current' = Len(tables) + 1
    /\ rebuilding' = FALSE
    /\ th' = [th EXCEPT ![p].nt = emptyTable, ![p].pc = "done"]
    /\ lastAcc' = [k \in TableKeys |-> IF lastAcc[k] = Never THEN Never ELSE Rebuilt]
    /\ UNCHANGED <<accepted, dupAccept, staleAcc>>
    /\ UNCHANGED <<rest, config, zeroKey, dedup, clock, procs, hitsLeft, ticksLeft, pos, seen>>

\* Hit returns th[p].res to its caller.
HitReturn(p) ==
    /\ p \in procs
    /\ th[p].pc = "done"
    /\ th' = [Leave(th, p) EXCEPT ![p] = idleThread]
    /\ NoAccept
    /\ UNCHANGED <<rest, config, tables, current, rebuilding, zeroKey, dedup, clock, procs, hitsLeft,
                   ticksLeft, pos, seen>>

\* The clock advances by one second (only Hit's first step reads it).
Tick ==
    /\ ticksLeft > 0
    /\ hitsLeft > 0
    /\ \E p \in procs : th[p].pc = "idle"
    /\ config.ordered =>
           \A p \in procs : th[p].pc = "idle" /\ clock = StartClock + pos[p] - 1
    /\ ticksLeft' = ticksLeft - 1
    /\ clock' = clock + 1
    /\ NoAccept
    /\ UNCHANGED <<rest, config, tables, current, rebuilding, zeroKey, dedup, th, procs, hitsLeft,
                   pos, seen>>

Next ==
    \/ \E p \in Procs, k \in Keys : HitBegin(p, k)
    \/ \E p \in Procs : HitFind(p)
    \/ \E p \in Procs : HitClaim(p)
    \/ \E p \in Procs : HitLoad(p)
    \/ \E p \in Procs : HitCas(p)
    \/ \E p \in Procs : HitCheck(p)
    \/ \E p \in Procs : HitPrune(p)
    \/ \E p \in Procs : HitPublish(p)
    \/ \E p \in Procs : HitReturn(p)
    \/ Tick

\* Threads calling Hit concurrently.
Init ==
    InitWith([SmallConfig EXCEPT !.maxKey = MaxKey, !.zeroKeys = {MaxKey + 1}],
             1..NumProcs, MaxHits, MaxTicks)

Spec == Init /\ [][Next]_vars

\* One thread: a sequence of non-concurrent Hit calls.
InitSeq ==
    InitWith([SmallConfig EXCEPT !.maxKey = MaxKey,
                                 !.zeroKeys = {SmallConfig.capacity,
                                               2 * SmallConfig.capacity},
                                 !.seq = TRUE],
             {1}, MaxSeqHits, MaxSeqTicks)

SpecSeq == InitSeq /\ [][Next]_vars

\* More threads, a few calls: races on one slot.
InitRace ==
    InitWith([SmallConfig EXCEPT !.maxKey = MaxKey, !.zeroKeys = {MaxKey + 1},
                                 !.race = TRUE],
             1..RaceProcs, MaxRaceHits, MaxRaceTicks)

SpecRace == InitRace /\ [][Next]_vars

\* Threads that each hit keys 0, 1, 2, ... in increasing order and wait for
\* the clock to tick after every call; the clock ticks once all of them have
\* made their call (the loop of TestLRU/rebuild with its lockstep clock).
InitOrdered ==
    InitWith([WideConfig EXCEPT !.maxKey = MaxOrderedKey,
                                !.zeroKeys = {MaxOrderedKey + 1},
                                !.ordered = TRUE],
             1..NumProcs, NumProcs * (MaxOrderedKey + 1), MaxOrderedKey + 1)

SpecOrdered == InitOrdered /\ [][Next]_vars

\* The table after Hit(1), ..., Hit(MaxItemCount) at the first clock value:
\* one more key fills it.
filledTable ==
    [entries |-> [i \in Slots |->
                     IF i \in 1..MaxItemCount
                     THEN [Key |-> i, Data |-> newEntryData(StartClock, StartClock)]
                     ELSE emptyEntry],
     count |-> MaxItemCount]

\* Threads calling Hit concurrently on a table that MaxItemCount sequential
\* calls have filled up to its limit.
InitFilledWith(hits, ticks) ==
    /\ config = [SmallConfig EXCEPT !.maxKey = MaxKey, !.zeroKeys = {MaxKey + 1}]
    /\ pos = [p \in Procs |-> 0]
    /\ seen = {}
    /\ tables = <<filledTable>>
    /\ current = 1
    /\ rebuilding = FALSE
    /\ zeroKey = MaxKey + 1
    /\ dedup = [kind |-> "LRU", arg |-> Interval * Second,
                intervalSeconds |-> Interval, panic |-> ""]
    /\ clock = StartClock
    /\ th = [p \in Procs |-> idleThread]
    /\ procs = 1..NumProcs
    /\ hitsLeft = hits
    /\ ticksLeft = ticks
    /\ lastAcc = [k \in TableKeys |-> IF k \in 1..MaxItemCount THEN StartClock ELSE Never]
    /\ accepted = [k \in TableKeys |-> IF k \in 1..MaxItemCount THEN {StartClock} ELSE {}]
    /\ dupAccept = FALSE
    /\ staleAcc = FALSE
    /\ restOff

InitFilled == InitFilledWith(MaxFilledHits, MaxFilledTicks)

SpecFilled == InitFilled /\ [][Next]_vars

\* The steps of thread p.
HitSteps(p) ==
    \/ \E k \in Keys : HitBegin(p, k)
    \/ HitFind(p)
    \/ HitClaim(p)
    \/ HitLoad(p)
    \/ HitCas(p)
    \/ HitCheck(p)
    \/ HitPrune(p)
    \/ HitPublish(p)
    \/ HitReturn(p)

\* Hit calls of the specification below.
MaxLiveHits == 3

InitLive == InitFilledWith(MaxLiveHits, 0)

NextLive == \E p \in Procs : HitSteps(p)

\* The filled table under concurrent calls at one clock value.
SpecLive == InitLive /\ [][NextLive]_vars

\* The same, where every thread that can take a step eventually takes one:
\* a call runs on its caller's thread, none of its steps waits for another
\* thread, and the scheduler does not starve a runnable thread.
SpecFilledLive == SpecLive /\ \A p \in 1..NumProcs : WF_vars(HitSteps(p))

\* Largest key stored in, or looked up in, the tables of the specification
\* below.
MaxFindKey == 6

RECURSIVE insertAll(_, _, _)
\* The table after the entries of sequence es, from position i on, are
\* inserted into t the way PrunedCopy inserts (table.go:103-106).
insertAll(es, i, t) ==
    IF i > Len(es) THEN t
    ELSE LET slot == FindEntry(t, es[i].Key).idx
         IN  insertAll(es, i + 1,
                       [t EXCEPT !.entries[slot] = es[i], !.count = @ + 1])

\* Entries for the keys of ks, all sampled at the first clock value.
sampledAtStart(ks) ==
    [i \in 1..Len(ks) |->
        [Key |-> ks[i], Data |-> newEntryData(StartClock, StartClock)]]

\* The sequences of at most n distinct keys up to max.
KeySeqs(n, max) ==
    UNION {{ks \in [1..m -> 1..max] :
               \A i, j \in 1..m : i # j => ks[i] # ks[j]} : m \in 0..n}

\* A thread is about to call FindEntry for some key on a table that holds up
\* to `capacity` keys, inserted in some order.
InitFind ==
    /\ config = [WideConfig EXCEPT !.maxKey = MaxFindKey, !.zeroKeys = {MaxFindKey}]
    /\ pos = [p \in Procs |-> 0]
    /\ seen = {}
    /\ \E ks \in KeySeqs(WideConfig.capacity, MaxFindKey) : tables = <<insertAll(sampledAtStart(ks), 1, emptyTable)>>
    /\ current = 1
    /\ rebuilding = FALSE
    /\ zeroKey = MaxFindKey
    /\ dedup = [kind |-> "LRU", arg |-> Interval * Second,
                intervalSeconds |-> Interval, panic |-> ""]
    /\ clock = StartClock
    /\ \E k \in 1..MaxFindKey :
           th = [p \in Procs |->
                    IF p = 1
                    THEN [idleThread EXCEPT !.pc = "find", !.ukey = k, !.key = k,
                                            !.t = 1, !.now = StartClock]
                    ELSE idleThread]
    /\ procs = {1}
    /\ hitsLeft = 0
    /\ ticksLeft = 0
    /\ lastAcc = [k \in TableKeys |-> Never]
    /\ accepted = [k \in TableKeys |-> {}]
    /\ dupAccept = FALSE
    /\ staleAcc = FALSE
    /\ restOff

NextFind == \E p \in Procs : HitFind(p)

\* One call of FindEntry.
SpecFind == InitFind /\ [][NextFind]_vars

\* Largest key of the tables pruned in the specification below.
MaxPruneKey == 5

\* The (accessTime, sampleTime) pairs of the entries of those tables.
PruneTimes ==
    {<<StartClock, StartClock>>, <<StartClock + 1, StartClock>>,
     <<StartClock + 1, StartClock + 1>>, <<StartClock + 2, StartClock + 1>>}

\* The clock values read by the call that rebuilds.
PruneNows == {StartClock + Interval, StartClock + Interval + 1}

\* A thread has set the rebuilding flag and is about to call PrunedCopy on a
\* table that holds up to `capacity` keys, inserted in some order, with any
\* of the times above; when the table is full its overflow slot may have
\* been written.
InitPrune ==
    /\ config = [WideConfig EXCEPT !.maxKey = MaxPruneKey, !.zeroKeys = {MaxPruneKey}]
    /\ pos = [p \in Procs |-> 0]
    /\ seen = {}
    /\ \E ks \in KeySeqs(WideConfig.capacity, MaxPruneKey) :
       \E ds \in [1..Len(ks) -> PruneTimes] :
       \E over \in {0, newEntryData(StartClock + 1, StartClock + 1)} :
           /\ over # 0 => Len(ks) = WideConfig.capacity
           /\ tables =
                  <<[insertAll([i \in 1..Len(ks) |->
                                   [Key |-> ks[i],
                                    Data |-> newEntryData(ds[i][1], ds[i][2])]],
                               1, emptyTable)
                        EXCEPT !.entries[WideConfig.capacity].Data = over]>>
    /\ current = 1
    /\ rebuilding = TRUE
    /\ zeroKey = MaxPruneKey
    /\ dedup = [kind |-> "LRU", arg |-> Interval * Second,
                intervalSeconds |-> Interval, panic |-> ""]
    /\ clock \in PruneNows
    /\ th = [p \in Procs |->
                IF p = 1
                THEN [idleThread EXCEPT !.pc = "prune", !.ukey = 1, !.key = 1,
                                        !.t = 1, !.now = clock, !.res = TRUE]
                ELSE idleThread]
    /\ procs = {1}
    /\ hitsLeft = 0
    /\ ticksLeft = 0
    /\ lastAcc = [k \in TableKeys |-> Never]
    /\ accepted = [k \in TableKeys |-> {}]
    /\ dupAccept = FALSE
    /\ staleAcc = FALSE
    /\ restOff

NextPrune ==
    \/ \E p \in Procs : HitPrune(p)
    \/ \E p \in Procs : HitPublish(p)
    \/ \E p \in Procs : HitReturn(p)

\* One rebuild: PrunedCopy, publication, return.
SpecPrune == InitPrune /\ [][NextPrune]_vars

\* Keys, calls and clock ticks of the specification below.
MaxWatchKey == 2
MaxWatchHits == 3
MaxWatchTicks == 2

\* Threads calling Hit concurrently while the clock ticks, with the history
\* of lost compare-and-swaps; key 0's placeholder shares key 1's first slot.
InitWatch ==
    InitWith([SmallConfig EXCEPT !.maxKey = MaxWatchKey,
                                 !.zeroKeys = {SmallConfig.capacity + 1},
                                 !.watch = TRUE],
             1..NumProcs, MaxWatchHits, MaxWatchTicks)

SpecWatch == InitWatch /\ [][Next]_vars

\* One caller, the clock starting below the interval (a fake clock, or the
\* first seconds of the epoch) or one second before the 32-bit time wraps.
MaxWrapKey == 2
MaxWrapHits == 4
MaxWrapTicks == 2
WrapClocks == {0, 1, StartClock, TimeMod - 1}

InitWrap ==
    \E start \in WrapClocks :
        InitAt([SmallConfig EXCEPT !.maxKey = MaxWrapKey,
                                   !.zeroKeys = {SmallConfig.capacity + 1}],
               {1}, MaxWrapHits, MaxWrapTicks, start)

SpecWrap == InitWrap /\ [][Next]_vars

\* ------------------------------------------------------------ NewSet, NewLRU

\* The fractions of a second of the intervals tried, in milliseconds.
Fractions == {0, 10, 999}

\* The intervals passed to the constructors.
Durations == {s * Second + ms : s \in 0..MaxSeconds, ms \in Fractions}

\* math.MaxUint32, the largest value of the table's time unit.
MaxUint32 == TimeMod - 1

\* Nothing has been constructed yet.
noDedup == [kind |-> "", arg |-> 0, intervalSeconds |-> 0, panic |-> ""]

\* The constructor panics: no deduplicator is returned.
Panic(kind, d, msg) ==
    /\ dedup' = [kind |-> kind, arg |-> d, intervalSeconds |-> 0, panic |-> msg]
    /\ UNCHANGED <<tables, current, zeroKey>>

\* The constructor returns a deduplicator with one empty table.
Build(kind, d) ==
    /\ dedup' = [kind |-> kind, arg |-> d, intervalSeconds |-> d \div Second,
                 panic |-> ""]
    /\ tables' = <<emptyTable>>
    /\ current' = 1
    /\ zeroKey' \in config.zeroKeys

\* A faulty NewSet that takes the upper limit as exclusive.
NewSetExclusive(d) ==
    /\ dedup = noDedup
    /\ IF d < MinSetSeconds * Second
       THEN Panic("Set", d, "NewSet: interval must be at least 1s")
       ELSE IF d >= MaxSetSeconds * Second
            THEN Panic("Set", d, "NewSet: interval must not exceed 30s")
            ELSE Build("Set", d)
    /\ NoAccept
    /\ UNCHANGED <<rest, config, rebuilding, clock, th, procs, hitsLeft, ticksLeft,
                   pos, seen>>

\* NewSet(interval, clock)
NewSet(d) ==
    /\ dedup = noDedup
    /\ IF d < MinSetSeconds * Second
       THEN Panic("Set", d, "NewSet: interval must be at least 1s")
       ELSE IF d > MaxSetSeconds * Second
            THEN Panic("Set", d, "NewSet: interval must not exceed 30s")
            ELSE Build("Set", d)
    /\ NoAccept
    /\ UNCHANGED <<rest, config, rebuilding, clock, th, procs, hitsLeft, ticksLeft,
                   pos, seen>>

\* NewLRU(interval, clock)
NewLRU(d) ==
    /\ dedup = noDedup
    /\ IF d > MaxUint32 * Second
       THEN Panic("LRU", d, "NewLRU: interval must be <= math.MaxUint32 seconds")
       ELSE Build("LRU", d)
    /\ NoAccept
    /\ UNCHANGED <<rest, config, rebuilding, clock, th, procs, hitsLeft, ticksLeft,
                   pos, seen>>

\* Before construction: no table, no deduplicator.
InitNew ==
    /\ config = [SmallConfig EXCEPT !.maxKey = MaxKey, !.zeroKeys = {MaxKey + 1}]
    /\ pos = [p \in Procs |-> 0]
    /\ seen = {}
    /\ tables = <<>>
    /\ current = 0
    /\ rebuilding = FALSE
    /\ zeroKey = 0
    /\ dedup = noDedup
    /\ clock = StartClock
    /\ th = [p \in Procs |-> idleThread]
    /\ procs = {}
    /\ hitsLeft = 0
    /\ ticksLeft = 0
    /\ lastAcc = [k \in TableKeys |-> Never]
    /\ accepted = [k \in TableKeys |-> {}]
    /\ dupAccept = FALSE
    /\ staleAcc = FALSE
    /\ restOff

NextNew ==
    \/ \E d \in Durations : NewSet(d)
    \/ \E d \in Durations : NewLRU(d)

\* One call of a constructor with an interval from Durations.
SpecNew == InitNew /\ [][NextNew]_vars

\* ------------------------------------------------------------ claims

\* Thread p has decided its call and not returned yet.
Done(p) == p \in procs /\ th[p].pc = "done"

\* C1: for one key and non-concurrent Hit calls with no rebuild in between,
\* Hit returns true on the first call, false while now - lastAcceptedTime <
\* interval, and true once now >= lastAcceptedTime + interval.
C1_IntervalRule ==
    \A p \in Procs :
        Done(p) =>
            /\ (th[p].prev = Never => th[p].res)
            /\ (th[p].prev >= 0 => (th[p].res <=> (th[p].now - th[p].prev >= Interval)))

\* C1 witness: a call accepted exactly when the interval has elapsed since the
\* last accepted call on its key.
C1_Witness ==
    \E p \in Procs :
        Done(p) /\ th[p].prev >= 0 /\ th[p].res /\ th[p].now = th[p].prev + Interval

\* The interval rule over the accepted clock values of every key.
Spaced ==
    /\ ~dupAccept
    /\ \A k \in TableKeys : \A a, b \in accepted[k] :
           a # b => (a - b >= Interval \/ b - a >= Interval)

\* C2 as stated: for every key and every interleaving, rebuilds included, any
\* two accepted Hit calls on that key are at least interval apart.
C2_Original == Spaced

\* C2, amended: before any rebuild has been published, and as long as every
\* accepted Hit decided while the clock still showed the value the call had
\* read, any two accepted Hit calls on one key are at least interval apart.
C2_SpacedBeforeRebuild == (Len(tables) = 1 /\ ~staleAcc) => Spaced

\* C2 witness: a key accepted twice, interval apart, under those conditions.
C2_Witness ==
    /\ Len(tables) = 1
    /\ ~staleAcc
    /\ \E k \in TableKeys : \E a, b \in accepted[k] : b - a >= Interval
    /\ \E p, q \in procs : p # q /\ th[p].pc # "idle" /\ th[q].pc # "idle"

\* The calls of the group of p: same key, same table, same clock value.
Group(p) ==
    {q \in procs : /\ th[q].pc # "idle"
                   /\ th[q].key = th[p].key
                   /\ th[q].t = th[p].t
                   /\ th[q].now = th[p].now}

\* The number of calls of a set that returned true.
Trues(G) == Cardinality({q \in G : th[q].res})

\* A group of at least two concurrent calls, all decided, none returned yet.
Settled(p) ==
    /\ Done(p)
    /\ Cardinality(Group(p)) >= 2
    /\ \A q \in Group(p) : Done(q) /\ ~th[q].gone

C4_Original ==
    \A p \in Procs :
        (Done(p) /\ th[p].new /\ ~th[p].peer /\ th[p].slot # capacity) =>
            th[p].res

\* The number of non-empty entries of a table, the overflow slot included.
Occupied(t) == Cardinality({i \in Slots : t.entries[i].Key # 0})

\* The table keys a table holds.
Held(t) == {t.entries[i].Key : i \in Slots} \ {0}

\* No call is in flight and no rebuild is in progress.
Quiescent == ~rebuilding /\ \A p \in procs : th[p].pc = "idle"

\* C5 as stated: key 0 follows the interval rule like any other key, and once
\* Hit(0) returned true the first Hit on a different key that maps to the
\* same starting slot (0 mod capacity) still returns true.
C5_Original ==
    \A p \in Procs :
        Done(p) =>
            /\ (th[p].ukey = 0 /\ th[p].first => th[p].res)
            /\ (th[p].ukey = 0 /\ th[p].prev >= 0 =>
                    (th[p].res <=> (th[p].now - th[p].prev >= Interval)))
            /\ (/\ th[p].ukey # 0
                /\ th[p].first
                /\ 0 \in seen
                /\ lastAcc[zeroKey] # Never
                /\ th[p].ukey % capacity = 0
                => th[p].res)

\* C5, amended: key 0 is stored under the non-zero placeholder zeroKey and
\* follows the interval rule on that entry, which a caller passing the key
\* zeroKey itself shares; once Hit(0) returned true, the first Hit on a
\* different key other than zeroKey that maps to the same starting slot
\* still returns true.
C5_ZeroKeyPlaceholder ==
    \A p \in Procs :
        Done(p) =>
            /\ (th[p].ukey = 0 /\ th[p].prev = Never => th[p].res)
            /\ (th[p].ukey = 0 /\ th[p].prev >= 0 =>
                    (th[p].res <=> (th[p].now - th[p].prev >= Interval)))
            /\ (/\ th[p].ukey # 0
                /\ th[p].ukey # zeroKey
                /\ th[p].first
                /\ 0 \in seen
                /\ lastAcc[zeroKey] # Never
                /\ th[p].ukey % capacity = zeroKey % capacity
                => th[p].res)

\* C5 witness: after Hit(0) was accepted, the first call on another key with
\* the same starting slot probed past the placeholder's entry and returned
\* true.
C5_Witness ==
    \E p \in Procs :
        /\ Done(p)
        /\ th[p].ukey # 0
        /\ th[p].ukey # zeroKey
        /\ th[p].first
        /\ 0 \in seen
        /\ lastAcc[zeroKey] >= 0
        /\ th[p].ukey % capacity = zeroKey % capacity
        /\ zeroKey \in Held(TableOf(p))
        /\ th[p].probes >= 2
        /\ th[p].res

FirstKeys == {IF k = 0 THEN zeroKey ELSE k : k \in 0..(MaxItemCount - 1)}

\* Every thread has hit the keys 0 .. n-1 in order, and all is quiet.
HitInOrder(n) == Quiescent /\ \A p \in procs : pos[p] = n

\* C7 as stated: once more than capacity distinct keys were hit in increasing
\* order while the clock advances, none of the first MaxItemCount keys is
\* left in the table.
C7_Original ==
    \A n \in 0..(MaxOrderedKey + 1) :
        (HitInOrder(n) /\ n > capacity) =>
            Held(tables[current]) \cap FirstKeys = {}

\* C7, amended: once at least 2 * MaxItemCount + 1 distinct keys were hit in
\* increasing order while the clock advances, none of the first MaxItemCount
\* keys is left in the table.
C7_OldestKeysFlushed ==
    \A n \in 0..(MaxOrderedKey + 1) :
        (HitInOrder(n) /\ n >= 2 * MaxItemCount + 1) =>
            Held(tables[current]) \cap FirstKeys = {}

\* C7 witness: 2 * MaxItemCount + 1 keys were hit in order, rebuilds were
\* published, and the table holds later keys only.
C7_Witness ==
    /\ HitInOrder(2 * MaxItemCount + 1)
    /\ Len(tables) >= 3
    /\ Held(tables[current]) # {}
    /\ Held(tables[current]) \cap FirstKeys = {}

\* The threads that are rebuilding: they won the flag and have not published.
Rebuilders == {p \in procs : th[p].pc \in {"prune", "publish"}}

\* A step that changes the current table is the publication of a rebuilder.
OnlyRebuilderPublishes ==
    current' # current =>
        \E p \in Rebuilders : th[p].pc = "publish" /\ th'[p].pc = "done"

\* A thread that finds the flag set goes on to return, in one step.
LosersProceed ==
    \A p \in procs :
        (th[p].pc = "check" /\ rebuilding /\ th'[p].pc # "check") =>
            (th'[p].pc = "done" /\ current' = current /\ rebuilding' = rebuilding)

\* C8: at any moment at most one thread is rebuilding; only the thread that
\* set the flag computes and publishes a pruned copy, and a thread that
\* finds the flag set goes on without rebuilding and without waiting.
C8_SingleRebuilder ==
    /\ [](Cardinality(Rebuilders) <= 1 /\ (rebuilding <=> Rebuilders # {}))
    /\ [][OnlyRebuilderPublishes /\ LosersProceed]_vars

\* C8 witness: while one thread rebuilds, another one has found the table
\* over-full and the flag set, and has gone on.
C8_Witness ==
    \E p, q \in procs :
        /\ p # q
        /\ p \in Rebuilders
        /\ Done(q)
        /\ th[q].lost

\* The step of the position of thread p is enabled.
CanStep(p) ==
    CASE th[p].pc = "find"    -> ENABLED HitFind(p)
      [] th[p].pc = "claim"   -> ENABLED HitClaim(p)
      [] th[p].pc = "load"    -> ENABLED HitLoad(p)
      [] th[p].pc = "cas"     -> ENABLED HitCas(p)
      [] th[p].pc = "check"   -> ENABLED HitCheck(p)
      [] th[p].pc = "prune"   -> ENABLED HitPrune(p)
      [] th[p].pc = "publish" -> ENABLED HitPublish(p)
      [] th[p].pc = "done"    -> ENABLED HitReturn(p)
      [] OTHER                -> FALSE

\* The largest number of steps a call can still take from a position.
Rank(pc) ==
    CASE pc = "find"    -> 8
      [] pc = "claim"   -> 7
      [] pc = "load"    -> 6
      [] pc = "cas"     -> 5
      [] pc = "check"   -> 4
      [] pc = "prune"   -> 3
      [] pc = "publish" -> 2
      [] pc = "done"    -> 1
      [] OTHER          -> 0

\* A call in flight can always take its next step, and findEntry has read at
\* most capacity slots, all of them when it returns the overflow slot.
NeverStuck ==
    \A p \in procs :
        /\ th[p].pc # "idle" => CanStep(p)
        /\ th[p].probes <= capacity
        /\ (th[p].pc \notin {"idle", "find"} /\ th[p].slot = capacity) =>
               th[p].probes = capacity

\* Every step of a call brings it closer to its return.
Progress ==
    \A p \in procs :
        (th[p].pc # "idle" /\ th'[p].pc # th[p].pc) =>
            Rank(th'[p].pc) < Rank(th[p].pc)

\* C9: every Hit returns after a bounded number of its own steps in every
\* reachable state, the full table included (findEntry returns the overflow
\* slot after at most capacity probes); no call waits or fails.
C9_BoundedHit == []NeverStuck /\ [][Progress]_vars

\* C9 witness: a call on a full table that used the overflow slot and has
\* decided.
C9_Witness ==
    \E p \in procs :
        Done(p) /\ th[p].slot = capacity /\ th[p].probes = capacity

\* The constructor has panicked.
Panicked == dedup.panic # ""

\* C10: NewSet panics when the interval is below 1s or above 30s and succeeds
\* in between; NewLRU panics when the interval exceeds math.MaxUint32 seconds
\* and succeeds up to it; a constructor that panics produces no deduplicator.
C10_IntervalRange ==
    /\ dedup.kind = "Set" =>
           (Panicked <=> (dedup.arg < 1 * Second \/ dedup.arg > 30 * Second))
    /\ dedup.kind = "LRU" => (Panicked <=> dedup.arg > MaxUint32 * Second)
    /\ (dedup.kind # "" /\ Panicked) => (tables = <<>> /\ current = 0)
    /\ (dedup.kind # "" /\ ~Panicked) =>
           /\ Len(tables) = 1 /\ current = 1
           /\ dedup.intervalSeconds * Second <= dedup.arg
           /\ dedup.arg < (dedup.intervalSeconds + 1) * Second

\* C10 witness: NewSet has accepted an interval of exactly 30s.
C10_Witness ==
    /\ dedup.kind = "Set"
    /\ dedup.arg = MaxSetSeconds * Second
    /\ ~Panicked
    /\ Len(tables) = 1

\* ------------------------------------------------------------ SamplingKey.hash

\* Longest method and route drawn for a key.
MaxStrLen == 2

\* The bytes methods and routes are made of ("G" and "/").
Chars == {71, 47}

\* The strings of at most MaxStrLen bytes.
Strings == UNION {[1..n -> Chars] : n \in 0..MaxStrLen}

\* The status codes drawn: two common ones and one that only differs from 200
\* above the 16 bits that are hashed.
StatusCodes == {200, 404, 65736}

SamplingKeys == [Method : Strings, Route : Strings, StatusCode : StatusCodes]

\* uint16(v)
Uint16(v) == v % 65536

\* binary.NativeEndian.PutUint16: the two bytes of v in the byte order of the
\* platform the program was built for.
PutUint16(v, bigEndian) ==
    IF bigEndian THEN <<v \div 256, v % 256>> ELSE <<v % 256, v \div 256>>

\* The bytes SamplingKey.hash writes to the FNV-64 hasher, in order: the
\* method, the route, the two bytes of the status code.
hashInput(k, bigEndian) ==
    k.Method \o k.Route \o PutUint16(Uint16(k.StatusCode), bigEndian)

\* hash is called on key a and then on key b.
HashKeys(a, b, bigEndian) ==
    /\ ~hk.called
    /\ hk' = [called |-> TRUE, a |-> a, b |-> b,
              inA |-> hashInput(a, bigEndian), inB |-> hashInput(b, bigEndian)]
    /\ UNCHANGED <<timed, env, fakeClock, cc, items, buckets, list, count, deletables, promotables,
                   control, wk, cl, msNow, hist>>

\* The timed package's state when no deduplicator is in use.
timedOff ==
    /\ config = [SmallConfig EXCEPT !.maxKey = MaxKey, !.zeroKeys = {MaxKey + 1}]
    /\ pos = [p \in Procs |-> 0]
    /\ seen = {}
    /\ tables = <<>>
    /\ current = 0
    /\ rebuilding = FALSE
    /\ zeroKey = 0
    /\ dedup = noDedup
    /\ clock = StartClock
    /\ th = [p \in Procs |-> idleThread]
    /\ procs = {}
    /\ hitsLeft = 0
    /\ ticksLeft = 0
    /\ lastAcc = [k \in TableKeys |-> Never]
    /\ accepted = [k \in TableKeys |-> {}]
    /\ dupAccept = FALSE
    /\ staleAcc = FALSE

InitHash == timedOff /\ restOff

NextHash == ~hk.called /\ \E a, b \in SamplingKeys, e \in BOOLEAN : HashKeys(a, b, e)

\* Two keys are hashed.
SpecHash == InitHash /\ [][NextHash]_vars

\* C11: two keys whose (method, route) pairs differ never hand the same byte
\* sequence to the hasher.
C11_Original ==
    (hk.called /\ <<hk.a.Method, hk.a.Route>> # <<hk.b.Method, hk.b.Route>>)
        => hk.inA # hk.inB

\* ------------------------------------------------------------ ccache: list

\* The nodes of the recency list; a node is allocated for an item when it is
\* inserted and carries the item's number, 0 is nil.
Nodes == 1..cc.maxItems

\* newList
newList == [Head |-> 0, Tail |-> 0,
            Next |-> [n \in Nodes |-> 0], Prev |-> [n \in Nodes |-> 0]]

\* linkedList.Remove as a list that forgets to clear the removed node's links.
listRemoveKeepLinks(l, node) ==
    LET next == l.Next[node]
        prev == l.Prev[node]
        l1 == IF next = 0 THEN [l EXCEPT !.Tail = l.Prev[node]]
                          ELSE [l EXCEPT !.Prev[next] = prev]
    IN  IF prev = 0 THEN [l1 EXCEPT !.Head = l1.Next[node]]
                    ELSE [l1 EXCEPT !.Next[prev] = next]

\* linkedList.Remove: unlink the node, fix Head and Tail, clear its links.
listRemove(l, node) ==
    LET next == l.Next[node]
        prev == l.Prev[node]
        l1 == IF next = 0 THEN [l EXCEPT !.Tail = l.Prev[node]]
                          ELSE [l EXCEPT !.Prev[next] = prev]
        l2 == IF prev = 0 THEN [l1 EXCEPT !.Head = l1.Next[node]]
                          ELSE [l1 EXCEPT !.Next[prev] = next]
    IN  [l2 EXCEPT !.Next[node] = 0, !.Prev[node] = 0]

\* linkedList.nodeToFront
nodeToFront(l, node) ==
    LET head == l.Head
        l1 == [l EXCEPT !.Head = node]
    IN  IF head = 0 THEN [l1 EXCEPT !.Tail = node]
        ELSE [l1 EXCEPT !.Next[node] = head, !.Prev[head] = node]

\* linkedList.Insert: a new node for the value, placed at the front.
listInsert(l, value) == nodeToFront(l, value)

\* linkedList.MoveToFront as a list that leaves the node where it is.
listMoveToFrontStay(l, node) == l

\* linkedList.MoveToFront
listMoveToFront(l, node) == nodeToFront(listRemove(l, node), node)

\* The values of the list from Head to Tail, following Next for at most n nodes.
RECURSIVE walk(_, _, _)
walk(l, node, n) ==
    IF node = 0 \/ n = 0 THEN <<>> ELSE <<node>> \o walk(l, l.Next[node], n - 1)

listOrder(l) == walk(l, l.Head, cc.maxItems)

\* ------------------------------------------------------------ ccache: buckets

\* Item.newItem
newItem(key, value) == [key |-> key, value |-> value, deleted |-> FALSE, node |-> 0]

\* Cache.bucket: the slot is the low bits of the key.
bucketOf(key) == key % (cc.bucketMask + 1)

\* bucket.get
bucketGet(bs, key) == bs[bucketOf(key)][key]

\* bucket.delete
bucketDelete(bs, key) == [bs EXCEPT ![bucketOf(key)][key] = 0]

\* bucket.set as a set that keeps the stored item when there is one.
bucketSetKeep(bs, key, item) ==
    IF bucketGet(bs, key) # 0 THEN bs ELSE [bs EXCEPT ![bucketOf(key)][key] = item]

\* bucket.set: the part under the lock, for the already allocated item.
bucketSet(bs, key, item) == [bs EXCEPT ![bucketOf(key)][key] = item]

\* ------------------------------------------------------------ ccache: worker

\* The width of uint, scaled.
UintMod == 256

\* The state the worker goroutine maintains, as one record.
workerState == [items |-> items, buckets |-> buckets, list |-> list,
                count |-> count, dropped |-> 0]

\* Cache.doDelete as a deletion that leaves count as it is.
doDeleteNoCount(w, item) ==
    LET w1 == [w EXCEPT !.items[item].deleted = TRUE]
    IN  IF w.items[item].node = 0 THEN w1
        ELSE [w1 EXCEPT !.list = listRemove(w.list, w.items[item].node),
                        !.items[item].node = 0]

\* Cache.doDelete
doDelete(w, item) ==
    LET w1 == [w EXCEPT !.items[item].deleted = TRUE]
    IN  IF w.items[item].node = 0 THEN w1
        ELSE [w1 EXCEPT !.count = (w.count - 1 + UintMod) % UintMod,
                        !.list = listRemove(w.list, w.items[item].node),
                        !.items[item].node = 0]

\* Cache.doPromote as a promotion that does not look at the deleted flag.
doPromoteDeleted(w, item) ==
    IF w.items[item].node # 0
    THEN [w |-> [w EXCEPT !.list = listMoveToFront(w.list, w.items[item].node)],
          added |-> FALSE]
    ELSE [w |-> [w EXCEPT !.count = (w.count + 1) % UintMod,
                          !.list = listInsert(w.list, item),
                          !.items[item].node = item],
          added |-> TRUE]

\* Cache.doPromote: the new state and the value returned.
doPromote(w, item) ==
    IF w.items[item].deleted THEN [w |-> w, added |-> FALSE]
    ELSE IF w.items[item].node # 0
    THEN [w |-> [w EXCEPT !.list = listMoveToFront(w.list, w.items[item].node)],
          added |-> FALSE]
    ELSE [w |-> [w EXCEPT !.count = (w.count + 1) % UintMod,
                          !.list = listInsert(w.list, item),
                          !.items[item].node = item],
          added |-> TRUE]

\* The loop of Cache.gc: n iterations left, starting at node.
RECURSIVE gcLoop(_, _, _)
gcLoop(w, node, n) ==
    IF n = 0 \/ node = 0 THEN w
    ELSE LET item == node
             w1 == [w EXCEPT !.buckets = bucketDelete(w.buckets, w.items[item].key),
                             !.count = (w.count - 1 + UintMod) % UintMod,
                             !.items[item].deleted = TRUE,
                             !.items[item].node = 0,
                             !.list = listRemove(w.list, node),
                             !.dropped = w.dropped + 1]
         IN  gcLoop(w1, w1.list.Prev[node], n - 1)

\* Cache.gc as a collector that starts from the front of the list.
gcFromHead(w) ==
    LET delta == (w.count - cc.maxCount + UintMod) % UintMod
        n == IF delta > cc.itemsToPrune THEN delta ELSE cc.itemsToPrune
    IN  gcLoop(w, w.list.Head, n)

\* Cache.gc
gc(w) ==
    LET delta == (w.count - cc.maxCount + UintMod) % UintMod
        n == IF delta > cc.itemsToPrune THEN delta ELSE cc.itemsToPrune
    IN  gcLoop(w, w.list.Tail, n)

\* promoteItem of Cache.worker
promoteItem(w, item) ==
    LET r == doPromote(w, item)
    IN  IF r.added /\ r.w.count > cc.maxCount THEN gc(r.w) ELSE r.w

\* ------------------------------------------------------------ ccache: Cache

\* The size of the control channel's buffer.
controlBuffer == 2

\* A client goroutine that is not inside a call; the fields keep the outcome
\* of its last call.
idleClient == [pc |-> "idle", op |-> "", key |-> 0, value |-> 0, item |-> 0,
               old |-> 0, found |-> FALSE, ok |-> FALSE, late |-> FALSE,
               now |-> 0, last |-> 0, ver |-> 0, res |-> FALSE]

\* NewWithShardBits: empty buckets, empty queues, the worker started. The
\* history starts with budget calls left.
InitCache(c) ==
    /\ cc = c
    /\ items = <<>>
    /\ buckets = [b \in 0..c.bucketMask |-> [k \in c.keys |-> 0]]
    /\ list = [Head |-> 0, Tail |-> 0,
               Next |-> [n \in 1..c.maxItems |-> 0],
               Prev |-> [n \in 1..c.maxItems |-> 0]]
    /\ count = 0
    /\ deletables = <<>>
    /\ promotables = <<>>
    /\ control = [buf |-> <<>>, closed |-> FALSE]
    /\ wk = [pc |-> "main", done |-> 0, dropped |-> 0]
    /\ cl = [p \in c.clients |-> idleClient]
    /\ hist = [on |-> TRUE, left |-> c.maxItems, serial |-> 0,
               loads |-> [k \in c.keys |-> 0],
               stored |-> [k \in c.keys |-> 0],
               calls |-> [k \in c.keys |-> 0],
               misses |-> [k \in c.keys |-> 0],
               first |-> [k \in c.keys |-> 0],
               disturbed |-> {},
               raced |-> {},
               refused |-> {},
               applied |-> <<>>,
               sets |-> 0,
               vals |-> [k \in c.keys |-> 0],
               enqP |-> 0, enqD |-> 0, procP |-> 0, procD |-> 0,
               syncAt |-> [p \in c.clients |-> [p |-> 0, d |-> 0, pp |-> 0, pd |-> 0]],
               closing |-> FALSE, panic |-> FALSE,
               ver |-> [n \in 1..c.maxItems |-> 0], won |-> {},
               lastStamp |-> [k \in c.keys |-> 0],
               zeroWins |-> [k \in c.keys |-> 0],
               early |-> FALSE, dupWin |-> FALSE]

\* The send of Cache.MoveToFront as one that queues whatever the queue holds.
tryPromoteAlways(q, item) == [q |-> Append(q, item), ok |-> TRUE]

\* The select of Cache.MoveToFront: the queue afterwards and the value returned.
tryPromote(q, item) ==
    IF Len(q) < cc.promoteBufferCount
    THEN [q |-> Append(q, item), ok |-> TRUE]
    ELSE [q |-> q, ok |-> FALSE]

\* A call of Cache.MoveToFront by client p ends the call p is in; h is the
\* history so far.
Promote(p, item, rec, h) ==
    LET r == tryPromote(promotables, item)
    IN  /\ promotables' = r.q
        /\ cl' = [cl EXCEPT ![p] = [rec EXCEPT !.pc = "idle", !.ok = r.ok]]
        /\ hist' = [h EXCEPT
                      !.refused = IF r.ok THEN @ ELSE @ \cup {item},
                      !.enqP = IF r.ok THEN @ + 1 ELSE @]

\* A client may start a call of operation op.
CanCall(p, op) ==
    /\ cc.on
    /\ p \in cc.clients
    /\ p # cc.closer
    /\ cl[p].pc = "idle"
    /\ op \in cc.ops
    /\ hist.left > 0

\* The history at the start of a call.
Called == [hist EXCEPT !.left = @ - 1, !.serial = @ + 1]

\* Cache.Get
Get(p, key) ==
    /\ CanCall(p, "Get")
    /\ cl' = [cl EXCEPT ![p] = [idleClient EXCEPT !.op = "Get", !.key = key,
                                    !.late = hist.closing,
                                    !.item = bucketGet(buckets, key)]]
    /\ hist' = Called
    /\ UNCHANGED <<timed, env, fakeClock, hk, cc, items, buckets, list, count, deletables,
                   promotables, control, wk, msNow>>

\* Cache.Set: bucket.set allocates the item and swaps it in under the lock.
SetStore(p, key) ==
    /\ CanCall(p, "Set")
    /\ cc.ordered => key = hist.sets
    /\ LET item == Len(items) + 1
           old == bucketGet(buckets, key)
       IN  /\ items' = Append(items, newItem(key, hist.serial + 1))
           /\ buckets' = bucketSet(buckets, key, item)
           /\ cl' = [cl EXCEPT ![p] = [idleClient EXCEPT
                        !.pc = IF old # 0 THEN "setDelete" ELSE "setPromote",
                        !.op = "Set", !.key = key, !.value = hist.serial + 1,
                        !.late = hist.closing,
                        !.item = item, !.old = old]]
           /\ hist' = [Called EXCEPT !.stored[key] = item,
                                     !.disturbed = @ \cup {key},
                                     !.sets = @ + 1,
                                     !.vals[key] = hist.serial + 1]
    /\ UNCHANGED <<timed, env, fakeClock, hk, cc, list, count, deletables, promotables, control,
                   wk, msNow>>

\* Cache.Set: the replaced item is sent to the deletion queue, which blocks
\* while the queue is full.
SetDelete(p) ==
    /\ cl[p].pc = "setDelete"
    /\ Len(deletables) < cc.deleteBufferCount
    /\ deletables' = Append(deletables, cl[p].old)
    /\ cl' = [cl EXCEPT ![p].pc = "setPromote"]
    /\ hist' = [hist EXCEPT !.enqD = @ + 1]
    /\ UNCHANGED <<timed, env, fakeClock, hk, cc, items, buckets, list, count, promotables,
                   control, wk, msNow>>

\* Cache.Set: MoveToFront on the new item, then return.
SetPromote(p) ==
    /\ cl[p].pc = "setPromote"
    /\ Promote(p, cl[p].item, cl[p], hist)
    /\ UNCHANGED <<timed, env, fakeClock, hk, cc, items, buckets, list, count, deletables,
                   control, wk, msNow>>

\* Cache.GetOrStore: bucket.getOrStore first looks the key up under the read
\* lock and returns the item when there is one.
GetOrStoreGet(p, key) ==
    /\ CanCall(p, "GetOrStore")
    /\ LET item == bucketGet(buckets, key)
       IN  cl' = [cl EXCEPT ![p] = [idleClient EXCEPT
                     !.pc = IF item # 0 THEN "idle" ELSE "getOrStoreLock",
                     !.op = "GetOrStore", !.key = key, !.value = hist.serial + 1,
                     !.late = hist.closing,
                     !.item = item, !.found = item # 0]]
    /\ hist' = [Called EXCEPT !.calls[key] = @ + 1]
    /\ UNCHANGED <<timed, env, fakeClock, hk, cc, items, buckets, list, count, deletables,
                   promotables, control, wk, msNow>>

\* bucket.getOrStore under the write lock, as one that stores without looking
\* the key up again.
GetOrStoreLockBlind(p) ==
    /\ cl[p].pc = "getOrStoreLock"
    /\ LET key == cl[p].key
           item == Len(items) + 1
       IN  /\ items' = Append(items, newItem(key, cl[p].value))
           /\ buckets' = bucketSet(buckets, key, item)
           /\ cl' = [cl EXCEPT ![p].pc = "getOrStorePromote", ![p].item = item]
           /\ hist' = [hist EXCEPT !.loads[key] = @ + 1, !.stored[key] = item,
                                       !.first[key] = IF hist.loads[key] = 0
                                                      THEN cl[p].value ELSE @]
    /\ UNCHANGED <<timed, env, fakeClock, hk, cc, list, count, deletables, promotables, control,
                   wk, msNow>>

\* bucket.getOrStore under the write lock: the key is looked up again, and only
\* when it is still absent is load called and its value stored.
GetOrStoreLock(p) ==
    /\ cl[p].pc = "getOrStoreLock"
    /\ LET key == cl[p].key
           existing == bucketGet(buckets, key)
           item == Len(items) + 1
       IN  IF existing # 0
           THEN /\ cl' = [cl EXCEPT ![p].pc = "idle", ![p].item = existing,
                                    ![p].found = TRUE]
                /\ hist' = [hist EXCEPT !.raced = @ \cup {key}]
                /\ UNCHANGED <<items, buckets>>
           ELSE /\ items' = Append(items, newItem(key, cl[p].value))
                /\ buckets' = bucketSet(buckets, key, item)
                /\ cl' = [cl EXCEPT ![p].pc = "getOrStorePromote", ![p].item = item]
                /\ hist' = [hist EXCEPT !.loads[key] = @ + 1, !.stored[key] = item,
                                       !.first[key] = IF hist.loads[key] = 0
                                                      THEN cl[p].value ELSE @]
    /\ UNCHANGED <<timed, env, fakeClock, hk, cc, list, count, deletables, promotables, control,
                   wk, msNow>>

\* Cache.GetOrStore: MoveToFront on the item it created, then return.
GetOrStorePromote(p) ==
    /\ cl[p].pc = "getOrStorePromote"
    /\ Promote(p, cl[p].item, cl[p], [hist EXCEPT !.misses[cl[p].key] = @ + 1])
    /\ UNCHANGED <<timed, env, fakeClock, hk, cc, items, buckets, list, count, deletables,
                   control, wk, msNow>>

\* Cache.MoveToFront, called by a client on an item it got from the cache.
MoveToFront(p, item) ==
    /\ CanCall(p, "MoveToFront")
    /\ item \in 1..Len(items)
    /\ LET r == tryPromote(promotables, item)
       IN  /\ promotables' = r.q
           /\ cl' = [cl EXCEPT ![p] = [idleClient EXCEPT !.op = "MoveToFront",
                                           !.item = item, !.ok = r.ok]]
           /\ hist' = [Called EXCEPT
                         !.refused = IF r.ok THEN @ ELSE @ \cup {item},
                         !.enqP = IF r.ok THEN @ + 1 ELSE @]
    /\ UNCHANGED <<timed, env, fakeClock, hk, cc, items, buckets, list, count, deletables,
                   control, wk, msNow>>

\* control.syncUpdates: the message is sent to the control channel, which
\* blocks while its buffer is full and panics once the channel is closed.
SyncUpdatesSend(p) ==
    /\ CanCall(p, "syncUpdates")
    /\ control.closed \/ Len(control.buf) < controlBuffer
    /\ IF control.closed
       THEN /\ cl' = [cl EXCEPT ![p] = [idleClient EXCEPT !.pc = "panic",
                                            !.op = "syncUpdates"]]
            /\ hist' = [Called EXCEPT !.panic = TRUE]
            /\ UNCHANGED control
       ELSE /\ control' = [control EXCEPT
                             !.buf = Append(@, [type |-> "sync", done |-> p])]
            /\ cl' = [cl EXCEPT ![p] = [idleClient EXCEPT !.pc = "syncWait",
                                            !.op = "syncUpdates"]]
            /\ hist' = [Called EXCEPT
                          !.syncAt[p] = [p |-> hist.enqP, d |-> hist.enqD,
                                          pp |-> hist.procP, pd |-> hist.procD]]
    /\ UNCHANGED <<timed, env, fakeClock, hk, cc, items, buckets, list, count, deletables,
                   promotables, wk, msNow>>

\* control.CloseWithTimeout: it starts with syncUpdates.
CloseSync(p) ==
    /\ cc.on
    /\ p = cc.closer
    /\ cl[p].pc = "idle"
    /\ ~hist.closing
    /\ Len(control.buf) < controlBuffer
    /\ control' = [control EXCEPT !.buf = Append(@, [type |-> "sync", done |-> p])]
    /\ cl' = [cl EXCEPT ![p] = [idleClient EXCEPT !.pc = "closeWait", !.op = "Close"]]
    /\ hist' = [hist EXCEPT !.closing = TRUE,
                            !.syncAt[p] = [p |-> hist.enqP, d |-> hist.enqD,
                                          pp |-> hist.procP, pd |-> hist.procD]]
    /\ UNCHANGED <<timed, env, fakeClock, hk, cc, items, buckets, list, count, deletables,
                   promotables, wk, msNow>>

\* control.CloseWithTimeout: the stop message is sent.
CloseStop(p) ==
    /\ cl[p].pc = "closeStop"
    /\ Len(control.buf) < controlBuffer
    /\ control' = [control EXCEPT !.buf = Append(@, [type |-> "stop", done |-> 0])]
    /\ cl' = [cl EXCEPT ![p].pc = "closeClose"]
    /\ UNCHANGED <<timed, env, fakeClock, hk, cc, items, buckets, list, count, deletables,
                   promotables, wk, msNow, hist>>

\* control.CloseWithTimeout: the control channel is closed and Close returns.
CloseClose(p) ==
    /\ cl[p].pc = "closeClose"
    /\ control' = [control EXCEPT !.closed = TRUE]
    /\ cl' = [cl EXCEPT ![p].pc = "closed"]
    /\ UNCHANGED <<timed, env, fakeClock, hk, cc, items, buckets, list, count, deletables,
                   promotables, wk, msNow, hist>>

\* The worker is in one of its loops that read the two queues.
WorkerReads == wk.pc \in {"main", "sync", "drain1", "drain2"}

\* The worker takes over the state w it has computed.
WorkerApply(w) ==
    /\ items' = w.items
    /\ buckets' = w.buckets
    /\ list' = w.list
    /\ count' = w.count
    /\ wk' = [wk EXCEPT !.dropped = @ + w.dropped]

\* The keys gc has removed from the buckets are no longer stored.
Evict(w, h) ==
    LET gone == {k \in cc.keys : bucketGet(buckets, k) # 0 /\ bucketGet(w.buckets, k) = 0}
    IN  [h EXCEPT !.stored = [k \in cc.keys |-> IF k \in gone THEN 0 ELSE @[k]],
                  !.disturbed = @ \cup gone]

\* Cache.worker: an item is received from the deletion queue and deleted.
WorkerDelete ==
    /\ WorkerReads
    /\ deletables # <<>>
    /\ deletables' = Tail(deletables)
    /\ WorkerApply(doDelete(workerState, Head(deletables)))
    /\ hist' = [hist EXCEPT !.procD = @ + 1]
    /\ UNCHANGED <<timed, env, fakeClock, hk, cc, promotables, control, cl, msNow>>

\* Cache.worker: an item is received from the promotion queue and promoted,
\* and the cache is pruned when that made the count exceed maxCount.
WorkerPromote ==
    /\ WorkerReads
    /\ promotables # <<>>
    /\ promotables' = Tail(promotables)
    /\ LET item == Head(promotables)
           w == promoteItem(workerState, item)
       IN  /\ WorkerApply(w)
           /\ hist' = Evict(w, [hist EXCEPT
                         !.procP = @ + 1,
                         !.applied = IF items[item].deleted THEN @
                                     ELSE Append(@, item)])
    /\ UNCHANGED <<timed, env, fakeClock, hk, cc, deletables, control, cl, msNow>>

\* Cache.worker, control, as a worker that stops at any message.
WorkerControlStop ==
    /\ wk.pc = "main"
    /\ control.buf # <<>>
    /\ control' = [control EXCEPT !.buf = Tail(@)]
    /\ wk' = [wk EXCEPT !.pc = "drain1"]
    /\ UNCHANGED <<timed, env, fakeClock, hk, cc, items, buckets, list, count, deletables,
                   promotables, cl, msNow, hist>>

\* Cache.worker: a message is received from the control channel.
WorkerControl ==
    /\ wk.pc = "main"
    /\ control.buf # <<>>
    /\ control' = [control EXCEPT !.buf = Tail(@)]
    /\ LET ctrl == Head(control.buf)
       IN  wk' = IF ctrl.type = "stop" THEN [wk EXCEPT !.pc = "drain1"]
                 ELSE [wk EXCEPT !.pc = "sync", !.done = ctrl.done]
    /\ UNCHANGED <<timed, env, fakeClock, hk, cc, items, buckets, list, count, deletables,
                   promotables, cl, msNow, hist>>

\* Cache.worker, controlSyncUpdates, as a worker that answers without reading
\* the queues.
WorkerSyncDefaultEarly ==
    /\ wk.pc = "sync"
    /\ wk' = [wk EXCEPT !.pc = "syncSend"]
    /\ UNCHANGED <<timed, env, fakeClock, hk, cc, items, buckets, list, count, deletables,
                   promotables, control, cl, msNow, hist>>

\* Cache.worker, controlSyncUpdates: both queues are empty, the default case
\* is taken.
WorkerSyncDefault ==
    /\ wk.pc = "sync"
    /\ deletables = <<>>
    /\ promotables = <<>>
    /\ wk' = [wk EXCEPT !.pc = "syncSend"]
    /\ UNCHANGED <<timed, env, fakeClock, hk, cc, items, buckets, list, count, deletables,
                   promotables, control, cl, msNow, hist>>

\* Cache.worker, controlSyncUpdates: the worker sends on the done channel and
\* the caller of syncUpdates receives; syncUpdates returns.
WorkerSyncDone ==
    /\ wk.pc = "syncSend"
    /\ cl[wk.done].pc \in {"syncWait", "closeWait"}
    /\ wk' = [wk EXCEPT !.pc = "main", !.done = 0]
    /\ cl' = [cl EXCEPT ![wk.done].pc =
                 IF cl[wk.done].pc = "closeWait" THEN "closeStop" ELSE "idle"]
    /\ UNCHANGED <<timed, env, fakeClock, hk, cc, items, buckets, list, count, deletables,
                   promotables, control, msNow, hist>>

\* Cache.worker, drain: the first loop ends when both queues are empty.
WorkerDrainDefault ==
    /\ wk.pc = "drain1"
    /\ deletables = <<>>
    /\ promotables = <<>>
    /\ wk' = [wk EXCEPT !.pc = "drain2"]
    /\ UNCHANGED <<timed, env, fakeClock, hk, cc, items, buckets, list, count, deletables,
                   promotables, control, cl, msNow, hist>>

\* Cache.worker, drain: the context expires, the worker goroutine exits.
WorkerTimeout ==
    /\ wk.pc = "drain2"
    /\ wk' = [wk EXCEPT !.pc = "exited"]
    /\ UNCHANGED <<timed, env, fakeClock, hk, cc, items, buckets, list, count, deletables,
                   promotables, control, cl, msNow, hist>>

\* The calls of the client goroutines on the cache.
Calls ==
    \/ \E p \in cc.clients, k \in cc.keys : Get(p, k)
    \/ \E p \in cc.clients, k \in cc.keys : SetStore(p, k)
    \/ \E p \in cc.clients : SetDelete(p)
    \/ \E p \in cc.clients : SetPromote(p)
    \/ \E p \in cc.clients, k \in cc.keys : GetOrStoreGet(p, k)
    \/ \E p \in cc.clients : GetOrStoreLock(p)
    \/ \E p \in cc.clients : GetOrStorePromote(p)
    \/ \E p \in cc.clients, i \in 1..cc.maxItems : MoveToFront(p, i)

\* The worker's reads of the two queues.
Queues ==
    \/ WorkerDelete
    \/ WorkerPromote

\* The calls of syncUpdates and the worker's answers.
Syncs ==
    \/ \E p \in cc.clients : SyncUpdatesSend(p)
    \/ WorkerControl
    \/ WorkerSyncDefault
    \/ WorkerSyncDone

\* The call of Close and the worker's way out.
Closes ==
    \/ \E p \in cc.clients : CloseSync(p)
    \/ \E p \in cc.clients : CloseStop(p)
    \/ \E p \in cc.clients : CloseClose(p)
    \/ WorkerDrainDefault
    \/ WorkerTimeout

\* Bounds of the runs of the cache.
MaxCacheKey == 2
CacheClients == 2
MaxCalls == 3

\* The cache's constants, scaled: maxCount, itemsToPrune and the sizes of the
\* two queues.
StoreConfig ==
    [on |-> TRUE, maxCount |-> 1, itemsToPrune |-> 1, promoteBufferCount |-> 1,
     deleteBufferCount |-> 1, bucketMask |-> 1, keys |-> 0..MaxCacheKey,
     clients |-> 1..CacheClients, closer |-> 0, maxItems |-> MaxCalls,
     ordered |-> FALSE, ops |-> {"Get", "Set", "GetOrStore", "MoveToFront"}]

InitStore == timedOff /\ hk = [called |-> FALSE] /\ env = [on |-> FALSE] /\ fakeClock = [on |-> FALSE] /\ msNow = 0 /\ InitCache(StoreConfig)

NextStore == Calls \/ Queues

\* Client goroutines call Get, Set, GetOrStore and MoveToFront while the
\* worker reads the queues.
SpecStore == InitStore /\ [][NextStore]_vars

\* Client goroutines call Set, MoveToFront and syncUpdates.
SyncConfig == [StoreConfig EXCEPT !.ops = {"Set", "MoveToFront", "syncUpdates"}]

InitSync == timedOff /\ hk = [called |-> FALSE] /\ env = [on |-> FALSE] /\ fakeClock = [on |-> FALSE] /\ msNow = 0 /\ InitCache(SyncConfig)

NextSync ==
    \/ \E p \in cc.clients, k \in cc.keys : SetStore(p, k)
    \/ \E p \in cc.clients : SetDelete(p)
    \/ \E p \in cc.clients : SetPromote(p)
    \/ \E p \in cc.clients, i \in 1..cc.maxItems : MoveToFront(p, i)
    \/ Queues
    \/ Syncs

\* Calls of syncUpdates while other goroutines fill the queues.
SpecSync == InitSync /\ [][NextSync]_vars

\* ------------------------------------------------------------ Sampler

\* Bounds of the runs of the sampler: keys (hashes), goroutines, calls of
\* DecisionFor, the clock's first and last value in milliseconds.
MaxSamplerKey == 1
SamplerProcs == 2
MaxDecisions == 3
StartMs == 3
MaxMs == 5

\* The sampler's cache, scaled, and its interval in milliseconds.
SamplerConfig ==
    [on |-> TRUE, maxCount |-> 1, itemsToPrune |-> 1, promoteBufferCount |-> 1,
     deleteBufferCount |-> 1, bucketMask |-> 1, keys |-> 0..MaxSamplerKey,
     clients |-> 1..SamplerProcs, closer |-> 0, maxItems |-> MaxDecisions,
     ordered |-> FALSE, ops |-> {"DecisionFor"}, interval |-> 2]

\* timeSinceMsSinceEpoch
timeSince(t) == msNow - t

\* The history of a call that returns true: it swapped the timer of item,
\* read at version ver, from expected to the clock value it had read.
Win(h, key, item, ver, expected, now) ==
    [h EXCEPT !.ver[item] = @ + 1,
              !.won = @ \cup {<<item, ver>>},
              !.dupWin = @ \/ <<item, ver>> \in h.won,
              !.zeroWins[key] = IF expected = 0 THEN @ + 1 ELSE @,
              !.early = @ \/ (h.lastStamp[key] # 0
                              /\ timeSince(h.lastStamp[key]) < cc.interval),
              !.lastStamp[key] = now]

\* Sampler.DecisionFor: the clock is read, then GetOrStore looks the key's
\* hash up under the bucket's read lock.
DecisionForGet(p, key) ==
    /\ CanCall(p, "DecisionFor")
    /\ LET item == bucketGet(buckets, key)
       IN  cl' = [cl EXCEPT ![p] = [idleClient EXCEPT
                     !.pc = IF item # 0 THEN "dfLoad" ELSE "dfLock",
                     !.op = "DecisionFor", !.key = key, !.now = msNow,
                     !.item = item, !.found = item # 0]]
    /\ hist' = [Called EXCEPT !.calls[key] = @ + 1]
    /\ UNCHANGED <<timed, env, fakeClock, hk, cc, items, buckets, list, count, deletables,
                   promotables, control, wk, msNow>>

\* Sampler.DecisionFor: GetOrStore under the bucket's write lock; load
\* returns a new timer holding 0.
DecisionForLock(p) ==
    /\ cl[p].pc = "dfLock"
    /\ LET key == cl[p].key
           existing == bucketGet(buckets, key)
           item == Len(items) + 1
       IN  IF existing # 0
           THEN /\ cl' = [cl EXCEPT ![p].pc = "dfLoad", ![p].item = existing,
                                    ![p].found = TRUE]
                /\ hist' = [hist EXCEPT !.raced = @ \cup {key}]
                /\ UNCHANGED <<items, buckets>>
           ELSE /\ items' = Append(items, newItem(key, 0))
                /\ buckets' = bucketSet(buckets, key, item)
                /\ cl' = [cl EXCEPT ![p].pc = "dfStored", ![p].item = item]
                /\ hist' = [hist EXCEPT !.loads[key] = @ + 1, !.stored[key] = item]
    /\ UNCHANGED <<timed, env, fakeClock, hk, cc, list, count, deletables, promotables, control,
                   wk, msNow>>

\* Sampler.DecisionFor: GetOrStore calls MoveToFront on the item it created.
DecisionForStored(p) ==
    /\ cl[p].pc = "dfStored"
    /\ LET r == tryPromote(promotables, cl[p].item)
       IN  /\ promotables' = r.q
           /\ cl' = [cl EXCEPT ![p].pc = "dfFirst", ![p].ok = r.ok]
           /\ hist' = [hist EXCEPT
                         !.refused = IF r.ok THEN @ ELSE @ \cup {cl[p].item},
                         !.enqP = IF r.ok THEN @ + 1 ELSE @]
    /\ UNCHANGED <<timed, env, fakeClock, hk, cc, items, buckets, list, count, deletables,
                   control, wk, msNow>>

\* Sampler.DecisionFor, not loaded: timer.CompareAndSwap(0, now) decides.
DecisionForFirst(p) ==
    /\ cl[p].pc = "dfFirst"
    /\ LET item == cl[p].item
       IN  IF items[item].value = 0
           THEN /\ items' = [items EXCEPT ![item].value = cl[p].now]
                /\ cl' = [cl EXCEPT ![p].pc = "idle", ![p].res = TRUE]
                /\ hist' = Win(hist, cl[p].key, item, 0, 0, cl[p].now)
           ELSE /\ cl' = [cl EXCEPT ![p].pc = "idle", ![p].res = FALSE]
                /\ UNCHANGED <<items, hist>>
    /\ UNCHANGED <<timed, env, fakeClock, hk, cc, buckets, list, count, deletables, promotables,
                   control, wk, msNow>>

\* Sampler.DecisionFor, loaded: the timer is read and compared to the clock.
DecisionForLoad(p) ==
    /\ cl[p].pc = "dfLoad"
    /\ LET lastSampleSecs == items[cl[p].item].value
       IN  cl' = IF timeSince(lastSampleSecs) < cc.interval
                 THEN [cl EXCEPT ![p].pc = "idle", ![p].res = FALSE,
                                 ![p].last = lastSampleSecs]
                 ELSE [cl EXCEPT ![p].pc = "dfCas", ![p].last = lastSampleSecs,
                                 ![p].ver = hist.ver[cl[p].item]]
    /\ UNCHANGED <<timed, env, fakeClock, hk, cc, items, buckets, list, count, deletables,
                   promotables, control, wk, msNow, hist>>

\* Sampler.DecisionFor, loaded, as a call that stores without comparing.
DecisionForCasBlind(p) ==
    /\ cl[p].pc = "dfCas"
    /\ items' = [items EXCEPT ![cl[p].item].value = cl[p].now]
    /\ cl' = [cl EXCEPT ![p].pc = "dfPromote"]
    /\ hist' = Win(hist, cl[p].key, cl[p].item, cl[p].ver, cl[p].last, cl[p].now)
    /\ UNCHANGED <<timed, env, fakeClock, hk, cc, buckets, list, count, deletables, promotables,
                   control, wk, msNow>>

\* Sampler.DecisionFor, loaded: timer.CompareAndSwap(lastSampleSecs, now).
DecisionForCas(p) ==
    /\ cl[p].pc = "dfCas"
    /\ LET item == cl[p].item
       IN  IF items[item].value = cl[p].last
           THEN /\ items' = [items EXCEPT ![item].value = cl[p].now]
                /\ cl' = [cl EXCEPT ![p].pc = "dfPromote"]
                /\ hist' = Win(hist, cl[p].key, item, cl[p].ver, cl[p].last, cl[p].now)
           ELSE /\ cl' = [cl EXCEPT ![p].pc = "idle", ![p].res = FALSE]
                /\ UNCHANGED <<items, hist>>
    /\ UNCHANGED <<timed, env, fakeClock, hk, cc, buckets, list, count, deletables, promotables,
                   control, wk, msNow>>

\* Sampler.DecisionFor, loaded: MoveToFront on the item, return true.
DecisionForPromote(p) ==
    /\ cl[p].pc = "dfPromote"
    /\ Promote(p, cl[p].item, [cl[p] EXCEPT !.res = TRUE], hist)
    /\ UNCHANGED <<timed, env, fakeClock, hk, cc, items, buckets, list, count, deletables,
                   control, wk, msNow>>

\* A millisecond passes.
SamplerTick ==
    /\ cc.on
    /\ msNow < MaxMs
    /\ msNow' = msNow + 1
    /\ UNCHANGED <<timed, env, fakeClock, hk, cc, items, buckets, list, count, deletables,
                   promotables, control, wk, cl, hist>>

InitSampler ==
    timedOff /\ hk = [called |-> FALSE] /\ env = [on |-> FALSE] /\ fakeClock = [on |-> FALSE] /\ msNow = StartMs /\ InitCache(SamplerConfig)

NextSampler ==
    \/ \E p \in cc.clients, k \in cc.keys : DecisionForGet(p, k)
    \/ \E p \in cc.clients : DecisionForLock(p)
    \/ \E p \in cc.clients : DecisionForStored(p)
    \/ \E p \in cc.clients : DecisionForFirst(p)
    \/ \E p \in cc.clients : DecisionForLoad(p)
    \/ \E p \in cc.clients : DecisionForCas(p)
    \/ \E p \in cc.clients : DecisionForPromote(p)
    \/ SamplerTick
    \/ WorkerPromote

\* Goroutines call DecisionFor on the ccache-backed sampler while time passes.
SpecSampler == InitSampler /\ [][NextSampler]_vars

\* Bounds of the runs that close the cache.
MaxCloseKey == 0
MaxCloseCalls == 3
CloseClients == 1

\* Client goroutines call Get, Set and GetOrStore while another one calls
\* Close, as in the test of Close.
CloseConfig ==
    [on |-> TRUE, maxCount |-> 1, itemsToPrune |-> 1, promoteBufferCount |-> 1,
     deleteBufferCount |-> 1, bucketMask |-> 1, keys |-> 0..MaxCloseKey,
     clients |-> 1..(CloseClients + 1), closer |-> CloseClients + 1,
     maxItems |-> MaxCloseCalls, ordered |-> FALSE,
     ops |-> {"Get", "Set", "GetOrStore"}]

InitClose == timedOff /\ hk = [called |-> FALSE] /\ env = [on |-> FALSE] /\ fakeClock = [on |-> FALSE] /\ msNow = 0 /\ InitCache(CloseConfig)

\* The steps of the worker goroutine.
WorkerSteps ==
    \/ Queues
    \/ WorkerControl
    \/ WorkerSyncDefault
    \/ WorkerSyncDone
    \/ WorkerDrainDefault
    \/ WorkerTimeout

\* The steps of a call of client p that has started.
ClientSteps(p) ==
    \/ SetDelete(p)
    \/ SetPromote(p)
    \/ GetOrStoreLock(p)
    \/ GetOrStorePromote(p)

\* The steps of Close after its first.
CloserSteps(p) ==
    \/ CloseStop(p)
    \/ CloseClose(p)

NextClose ==
    \/ \E p \in cc.clients, k \in cc.keys : Get(p, k)
    \/ \E p \in cc.clients, k \in cc.keys : SetStore(p, k)
    \/ \E p \in cc.clients, k \in cc.keys : GetOrStoreGet(p, k)
    \/ \E p \in cc.clients : ClientSteps(p)
    \/ \E p \in cc.clients : CloseSync(p)
    \/ \E p \in cc.clients : CloserSteps(p)
    \/ WorkerSteps

\* Close is called while other goroutines call the cache.
SpecClose == InitClose /\ [][NextClose]_vars

\* The same with the scheduler running every goroutine that can take a step
\* and the timeout of the drain expiring in the end.
SpecCloseLive ==
    /\ SpecClose
    /\ WF_vars(WorkerSteps)
    /\ \A p \in 1..(CloseClients + 1) : WF_vars(ClientSteps(p) \/ CloserSteps(p))

\* Bounds of the runs that fill the cache past maxCount.
MaxGcKey == 4
MaxGcCalls == 8

\* One goroutine sets the keys 0, 1, 2, ... in order, as the tests of gc and
\* MoveToFront do, with maxCount 2 and itemsToPrune 2.
GcConfig ==
    [on |-> TRUE, maxCount |-> 2, itemsToPrune |-> 2, promoteBufferCount |-> 2,
     deleteBufferCount |-> 1, bucketMask |-> 1, keys |-> 0..MaxGcKey,
     clients |-> {1}, closer |-> 0, maxItems |-> MaxGcCalls,
     ordered |-> TRUE, ops |-> {"Set", "MoveToFront", "syncUpdates"}]

InitGc == timedOff /\ hk = [called |-> FALSE] /\ env = [on |-> FALSE] /\ fakeClock = [on |-> FALSE] /\ msNow = 0 /\ InitCache(GcConfig)

NextGc ==
    \/ \E p \in cc.clients, k \in cc.keys : SetStore(p, k)
    \/ \E p \in cc.clients : SetPromote(p)
    \/ \E p \in cc.clients, i \in 1..cc.maxItems : MoveToFront(p, i)
    \/ WorkerPromote
    \/ Syncs

\* The cache is filled past maxCount by one goroutine while the worker prunes.
SpecGc == InitGc /\ [][NextGc]_vars

\* ------------------------------------------------------------ claims: ccache

\* Client p has returned from a call of operation op on key.
Returned(p, op, key) == cl[p].pc = "idle" /\ cl[p].op = op /\ cl[p].key = key

\* Some call of GetOrStore on key has not returned yet.
InGetOrStore(key) ==
    \E p \in cc.clients :
        cl[p].key = key /\ cl[p].pc \in {"getOrStoreLock", "getOrStorePromote"}

\* C13: for a key that no Set replaces and no pruning evicts, at most one call
\* of GetOrStore invokes load and returns found = false, exactly one once the
\* calls have returned, and every call returns the one item holding the value
\* of that first load.
C13_GetOrStoreOnce ==
    \A key \in cc.keys :
        key \notin hist.disturbed =>
            /\ hist.loads[key] <= 1
            /\ hist.misses[key] <= hist.loads[key]
            /\ (hist.calls[key] > 0 /\ ~InGetOrStore(key)) =>
                   (hist.loads[key] = 1 /\ hist.misses[key] = 1)
            /\ \A p \in cc.clients :
                   Returned(p, "GetOrStore", key) =>
                       /\ cl[p].item # 0
                       /\ cl[p].item = hist.stored[key]
                       /\ items[cl[p].item].value = hist.first[key]
                       /\ cl[p].found = (cl[p].value # hist.first[key])

\* Two calls of GetOrStore on one key were in flight together, both past the
\* first lookup, and have returned the same item, one of them having created it.
C13_Witness ==
    \E key \in cc.keys, p, q \in cc.clients :
        /\ p # q
        /\ key \notin hist.disturbed
        /\ key \in hist.raced
        /\ Returned(p, "GetOrStore", key) /\ ~cl[p].found
        /\ Returned(q, "GetOrStore", key) /\ cl[q].found
        /\ cl[p].item = cl[q].item

\* C14: Get returns the item the last Set (or storing GetOrStore) put under
\* the key as long as no pruning has evicted the key since, and nil for a key
\* never stored or deleted; a Set on a stored key puts its new item in the
\* place of the stored one and hands exactly that previous item to the
\* deletion queue.
C14_SetThenGet ==
    [][/\ \A p \in cc.clients, key \in cc.keys :
              Get(p, key) => cl'[p].item = hist.stored[key]
       /\ \A p \in cc.clients, key \in cc.keys :
              SetStore(p, key) =>
                  /\ cl'[p].old = hist.stored[key]
                  /\ cl'[p].item # cl'[p].old
                  /\ bucketGet(buckets', key) = cl'[p].item
                  /\ items'[cl'[p].item].value = cl'[p].value
       /\ \A p \in cc.clients :
              SetDelete(p) => /\ cl[p].old # 0
                              /\ deletables' = Append(deletables, cl[p].old)]_vars

\* A Get has returned the item a Set had stored in the place of an earlier one.
C14_Witness ==
    \E key \in cc.keys, p, q \in cc.clients :
        /\ Returned(p, "Get", key)
        /\ Returned(q, "Set", key)
        /\ cl[q].old # 0
        /\ cl[p].item = cl[q].item
        /\ hist.stored[key] = cl[p].item

\* Client p calls MoveToFront on item in this step, by itself or as the last
\* statement of Set or GetOrStore.
MovesToFront(p, item) ==
    \/ MoveToFront(p, item)
    \/ cl[p].item = item /\ (SetPromote(p) \/ GetOrStorePromote(p))

\* A call of MoveToFront that has been reached can take its step.
PromoteReady ==
    \A p \in cc.clients :
        /\ cl[p].pc = "setPromote" => ENABLED SetPromote(p)
        /\ cl[p].pc = "getOrStorePromote" => ENABLED GetOrStorePromote(p)

\* C18: MoveToFront never waits: with promoteBufferCount items in the
\* promotion queue it returns false and leaves the queue, the recency list,
\* the count and the buckets as they were; otherwise it appends the item to
\* the queue and returns true.
C18_MoveToFrontNeverBlocks ==
    /\ []PromoteReady
    /\ [][\A p \in cc.clients, item \in 1..cc.maxItems :
             MovesToFront(p, item) =>
                 IF Len(promotables) >= cc.promoteBufferCount
                 THEN /\ ~cl'[p].ok
                      /\ UNCHANGED <<promotables, list, count, buckets, items>>
                 ELSE /\ cl'[p].ok
                      /\ promotables' = Append(promotables, item)
                      /\ UNCHANGED <<list, count, buckets, items>>]_vars

\* A call of MoveToFront has returned false and the promotion queue is full.
C18_Witness ==
    \E p \in cc.clients :
        /\ cl[p].pc = "idle"
        /\ cl[p].op = "MoveToFront"
        /\ ~cl[p].ok
        /\ Len(promotables) = cc.promoteBufferCount

\* The keys Get returns an item for.
Retrievable == {key \in cc.keys : bucketGet(buckets, key) # 0}

\* No call is in flight and the worker has emptied both queues.
Processed ==
    /\ \A p \in cc.clients : cl[p].pc \in {"idle", "closed"}
    /\ promotables = <<>>
    /\ deletables = <<>>

\* C16: once every queued promotion and deletion has been processed, Get
\* returns an item for at most maxCount keys, whatever calls of Set,
\* GetOrStore and MoveToFront were made, refused promotions included.
C16_Original == Processed => Cardinality(Retrievable) <= cc.maxCount

\* The keys 0..N-1 have been set in order, nothing else was promoted, no
\* promotion was refused and the worker has applied them all.
FilledInOrder(N) ==
    /\ cc.ordered
    /\ hist.sets = N
    /\ hist.enqP = N
    /\ hist.refused = {}
    /\ Processed

\* The item Get returns for key holds the value the key was set to.
Kept(key) ==
    /\ bucketGet(buckets, key) # 0
    /\ items[bucketGet(buckets, key)].value = hist.vals[key]

\* C15: after the keys 0..N-1, N > maxCount, have been set in order, every
\* promotion queued and applied, every key Get still returns is newer than
\* every key it no longer returns; for N = maxCount + itemsToPrune the first
\* itemsToPrune keys are gone and the last maxCount keys are returned with
\* their values.
C15_OldestPrunedFirst ==
    \A N \in (cc.maxCount + 1)..Cardinality(cc.keys) :
        FilledInOrder(N) =>
            /\ \A kept \in Retrievable, gone \in (0..(N - 1)) \ Retrievable :
                   kept > gone
            /\ Retrievable # {}
            /\ N = cc.maxCount + cc.itemsToPrune =>
                   /\ Retrievable = cc.itemsToPrune..(N - 1)
                   /\ \A key \in Retrievable : Kept(key)

\* maxCount + itemsToPrune keys have been set in order and the prunings have
\* left the last maxCount of them.
C15_Witness ==
    /\ FilledInOrder(cc.maxCount + cc.itemsToPrune)
    /\ Cardinality(Retrievable) = cc.maxCount
    /\ wk.dropped = cc.itemsToPrune

\* The position in the order of applied promotions of the last one of item,
\* 0 when none was applied.
LastPromoted(applied, item) ==
    LET at == {j \in 1..Len(applied) : applied[j] = item}
    IN  IF at = {} THEN 0 ELSE CHOOSE j \in at : \A i \in at : i <= j

\* Item x was the first one promoted and its promotion has been applied again
\* directly after every promotion of another item since.
KeptAtop(x) ==
    /\ hist.applied # <<>>
    /\ hist.applied[1] = x
    /\ \A j \in 2..(Len(hist.applied) - 1) :
           hist.applied[j] # x => hist.applied[j + 1] = x

\* The items in the recency list.
Listed(its) == {i \in 1..Len(its) : its[i].node # 0}

\* C17: an item whose promotion is applied after each insertion of another key
\* stays in the list and is returned by Get, however many keys are inserted;
\* and a pruning never removes an item while an item whose last promotion was
\* applied earlier stays in the recency list.
C17_PromotedPrunedLast ==
    /\ [](\A x \in 1..Len(items) :
             KeptAtop(x) => /\ x \in Listed(items)
                            /\ bucketGet(buckets, items[x].key) = x)
    /\ [][WorkerPromote =>
             \A x \in Listed(items) \ Listed(items'), y \in Listed(items') :
                 LastPromoted(hist'.applied, y) > LastPromoted(hist.applied, x)]_vars

\* maxCount + itemsToPrune keys have been inserted, the first item promoted
\* again after each of the others, prunings have happened and Get still
\* returns the first item.
C17_Witness ==
    /\ hist.sets = cc.maxCount + cc.itemsToPrune
    /\ Processed
    /\ KeptAtop(1)
    /\ Len(hist.applied) = 2 * hist.sets - 1
    /\ wk.dropped > 0
    /\ bucketGet(buckets, 0) = 1

\* C20: when syncUpdates returns, the worker has applied every promotion and
\* every deletion that was in the queues when syncUpdates was called: both
\* queues are read in order, and the worker has read past what they held.
C20_SyncAppliesPending ==
    [][WorkerSyncDone =>
         /\ hist.procP >= hist.syncAt[wk.done].p
         /\ hist.procD >= hist.syncAt[wk.done].d]_vars

\* A call of syncUpdates has returned that was made while a promotion and a
\* deletion were waiting in the queues.
C20_Witness ==
    \E p \in cc.clients :
        /\ cl[p].pc = "idle"
        /\ cl[p].op = "syncUpdates"
        /\ hist.syncAt[p].p > hist.syncAt[p].pp
        /\ hist.syncAt[p].d > hist.syncAt[p].pd

\* Client p waits to send a replaced item to the deletion queue, which is full
\* and which the worker, having exited, will never read again.
BlockedForGood(p) ==
    /\ cl[p].pc = "setDelete"
    /\ wk.pc = "exited"
    /\ Len(deletables) = cc.deleteBufferCount

SamplerIdle == \A p \in cc.clients : cl[p].pc = "idle"

\* C12: for every key at most one call wins by swapping a timer from 0, and
\* one does once the calls on the key have returned; no call returns true
\* before the interval has elapsed since the timestamp the last winner on the
\* key stored; no two calls win on the same stored timestamp.
C12_Original ==
    /\ \A key \in cc.keys :
           /\ hist.zeroWins[key] <= 1
           /\ (SamplerIdle /\ hist.calls[key] > 0) => hist.zeroWins[key] = 1
    /\ ~hist.early
    /\ ~hist.dupWin

\* ------------------------------------------------------------ appsec: configuration read from the environment

\* Longest value drawn for an environment variable.
MaxEnvLen == 3

\* The characters the values drawn are made of: digits, signs, the decimal
\* point and the letters of the units "s", "us" and "ns".
EnvChars == {"0", "1", "5", "-", "+", ".", "s", "u", "n"}

\* The values drawn, as sequences of characters ("" is the empty sequence).
EnvValues == UNION {[1..n -> EnvChars] : n \in 0..MaxEnvLen}

\* The two variables read.
EnvWAFTimeout == "DD_APPSEC_WAF_TIMEOUT"
EnvTraceRateLimit == "DD_APPSEC_TRACE_RATE_LIMIT"
EnvNames == {EnvWAFTimeout, EnvTraceRateLimit}

\* time.Millisecond, in nanoseconds, and the default trace rate.
DefaultWAFTimeout == 1000000
DefaultTraceRate == 100

DecimalDigits == <<"0", "1", "2", "3", "4", "5", "6", "7", "8", "9">>

\* '0' <= c && c <= '9'
IsDigit(c) == \E i \in 1..10 : DecimalDigits[i] = c

\* c - '0'
DigitVal(c) == (CHOOSE i \in 1..10 : DecimalDigits[i] = c) - 1

\* unicode.IsLetter, on the characters drawn.
IsLetter(c) == c \in {"s", "u", "n"}

\* The largest uint (1<<64 - 1 in the source, scaled to the width UintMod).
maxUint == UintMod - 1

\* The digit loop of strconv.ParseUint(s, 10, 0) from position i with the
\* value n read so far: a character that is no digit is a syntax error, a
\* value beyond maxUint a range error.
RECURSIVE parseUintDigits(_, _, _)
parseUintDigits(s, i, n) ==
    IF i > Len(s) THEN [n |-> n, err |-> ""]
    ELSE IF ~IsDigit(s[i]) THEN [n |-> 0, err |-> "syntax"]
    ELSE IF n >= maxUint \div 10 + 1 THEN [n |-> maxUint, err |-> "range"]
    ELSE LET n1 == n * 10 + DigitVal(s[i])
         IN  IF n1 > maxUint THEN [n |-> maxUint, err |-> "range"]
             ELSE parseUintDigits(s, i + 1, n1)

\* strconv.ParseUint(s, 10, 0)
ParseUint(s) ==
    IF s = <<>> THEN [n |-> 0, err |-> "syntax"] ELSE parseUintDigits(s, 1, 0)

\* RateLimitFromEnv without the test for zero.
RateLimitFromEnvZero(value) ==
    IF value = <<>> THEN DefaultTraceRate
    ELSE LET parsed == ParseUint(value)
         IN  IF parsed.err # "" THEN DefaultTraceRate ELSE parsed.n

\* RateLimitFromEnv, given the value of DD_APPSEC_TRACE_RATE_LIMIT.
RateLimitFromEnv(value) ==
    IF value = <<>> THEN DefaultTraceRate
    ELSE LET parsed == ParseUint(value)
         IN  IF parsed.err # "" THEN DefaultTraceRate
             ELSE IF parsed.n = 0 THEN DefaultTraceRate
             ELSE parsed.n

\* 1<<63, the bound time.ParseDuration tests its sums against, scaled to the
\* width of the integers of this model: one second fits, five overflow.
durationLimit == 1073741824

\* time's unitMap, in nanoseconds, on the units the characters drawn can
\* spell (0: no such unit).
unitMap(u) ==
    CASE u = <<"n", "s">> -> 1
      [] u = <<"u", "s">> -> 1000
      [] u = <<"s">> -> 1000000000
      [] OTHER -> 0

\* time.leadingInt from position i with the value x read so far: the value
\* of the leading digits, the position after them, and whether they overflow.
RECURSIVE leadingInt(_, _, _)
leadingInt(s, i, x) ==
    IF i > Len(s) \/ ~IsDigit(s[i]) THEN [x |-> x, i |-> i, err |-> FALSE]
    ELSE IF x > durationLimit \div 10 THEN [x |-> 0, i |-> i, err |-> TRUE]
    ELSE LET y == x * 10 + DigitVal(s[i])
         IN  IF y > durationLimit THEN [x |-> 0, i |-> i, err |-> TRUE]
             ELSE leadingInt(s, i + 1, y)

\* time.leadingFraction from position i: the digits after the point as a
\* number x over scale; digits that would overflow are skipped.
RECURSIVE leadingFraction(_, _, _, _, _)
leadingFraction(s, i, x, scale, overflow) ==
    IF i > Len(s) \/ ~IsDigit(s[i]) THEN [x |-> x, scale |-> scale, i |-> i]
    ELSE IF overflow THEN leadingFraction(s, i + 1, x, scale, TRUE)
    ELSE IF x > (durationLimit - 1) \div 10
         THEN leadingFraction(s, i + 1, x, scale, TRUE)
    ELSE LET y == x * 10 + DigitVal(s[i])
         IN  IF y > durationLimit THEN leadingFraction(s, i + 1, x, scale, TRUE)
             ELSE leadingFraction(s, i + 1, y, scale * 10, FALSE)

\* The position after the unit that starts at i: the first point or digit.
RECURSIVE unitEnd(_, _)
unitEnd(s, i) ==
    IF i > Len(s) \/ s[i] = "." \/ IsDigit(s[i]) THEN i ELSE unitEnd(s, i + 1)

\* uint64(float64(f) * (float64(unit) / scale)): unit and scale are powers
\* of ten, so one divides the other.
fraction(f, unit, scale) ==
    IF unit >= scale THEN f * (unit \div scale) ELSE f \div (scale \div unit)

durationError == [d |-> 0, err |-> TRUE]

\* The loop of time.ParseDuration from position i with the sum d so far:
\* one term [0-9]*(\.[0-9]*)?unit per turn.
RECURSIVE parseTerms(_, _, _)
parseTerms(s, i, d) ==
    IF i > Len(s) THEN [d |-> d, err |-> FALSE]
    ELSE IF ~(s[i] = "." \/ IsDigit(s[i])) THEN durationError
    ELSE
    LET li == leadingInt(s, i, 0)
        pre == li.i # i
        hasDot == li.i <= Len(s) /\ s[li.i] = "."
        lf == IF hasDot THEN leadingFraction(s, li.i + 1, 0, 1, FALSE)
              ELSE [x |-> 0, scale |-> 1, i |-> li.i]
        post == hasDot /\ lf.i # li.i + 1
        ue == unitEnd(s, lf.i)
        unit == unitMap(SubSeq(s, lf.i, ue - 1))
    IN  IF li.err THEN durationError
        ELSE IF ~pre /\ ~post THEN durationError
        ELSE IF ue = lf.i THEN durationError
        ELSE IF unit = 0 THEN durationError
        ELSE IF li.x > durationLimit \div unit THEN durationError
        ELSE LET v == li.x * unit
                      + (IF lf.x > 0 THEN fraction(lf.x, unit, lf.scale) ELSE 0)
             IN  IF v > durationLimit THEN durationError
                 ELSE IF d + v > durationLimit THEN durationError
                 ELSE parseTerms(s, ue, d + v)

\* time.ParseDuration(s): the duration in nanoseconds, or an error.
ParseDuration(s) ==
    LET signed == s # <<>> /\ s[1] \in {"-", "+"}
        neg == signed /\ s[1] = "-"
        r == IF signed THEN Tail(s) ELSE s
    IN  IF r = <<"0">> THEN [d |-> 0, err |-> FALSE]
        ELSE IF r = <<>> THEN durationError
        ELSE LET p == parseTerms(r, 1, 0)
             IN  IF p.err THEN durationError
                 ELSE IF neg THEN [d |-> 0 - p.d, err |-> FALSE]
                 ELSE IF p.d > durationLimit - 1 THEN durationError
                 ELSE [d |-> p.d, err |-> FALSE]

\* WAFTimeoutFromEnv that parses the value as it is written.
WAFTimeoutFromEnvAsWritten(value) ==
    IF value = <<>> THEN DefaultWAFTimeout
    ELSE LET parsed == ParseDuration(value)
         IN  IF parsed.err THEN DefaultWAFTimeout
             ELSE IF parsed.d <= 0 THEN DefaultWAFTimeout
             ELSE parsed.d

\* WAFTimeoutFromEnv, given the value of DD_APPSEC_WAF_TIMEOUT.
WAFTimeoutFromEnv(value) ==
    IF value = <<>> THEN DefaultWAFTimeout
    ELSE LET text == IF ~IsLetter(value[Len(value)]) THEN value \o <<"u", "s">>
                     ELSE value
             parsed == ParseDuration(text)
         IN  IF parsed.err THEN DefaultWAFTimeout
             ELSE IF parsed.d <= 0 THEN DefaultWAFTimeout
             ELSE parsed.d

\* t.Setenv(name, value) of a test case: no variable is set when the case
\* starts.
Setenv(name, value) ==
    /\ env.on
    /\ \A n \in EnvNames : env.vars[n] = <<>>
    /\ env' = [env EXCEPT !.vars[name] = value]
    /\ UNCHANGED <<timed, fakeClock, hk, cc, items, buckets, list, count, deletables,
                   promotables, control, wk, cl, msNow, hist>>

\* A call of WAFTimeoutFromEnv().
CallWAFTimeoutFromEnv ==
    /\ env.on
    /\ env' = [env EXCEPT !.call = "WAFTimeoutFromEnv",
                          !.arg = env.vars[EnvWAFTimeout],
                          !.res = WAFTimeoutFromEnv(env.vars[EnvWAFTimeout])]
    /\ UNCHANGED <<timed, fakeClock, hk, cc, items, buckets, list, count, deletables,
                   promotables, control, wk, cl, msNow, hist>>

\* A call of RateLimitFromEnv().
CallRateLimitFromEnv ==
    /\ env.on
    /\ env' = [env EXCEPT !.call = "RateLimitFromEnv",
                          !.arg = env.vars[EnvTraceRateLimit],
                          !.res = RateLimitFromEnv(env.vars[EnvTraceRateLimit])]
    /\ UNCHANGED <<timed, fakeClock, hk, cc, items, buckets, list, count, deletables,
                   promotables, control, wk, cl, msNow, hist>>

\* Neither variable is set and no reader was called.
InitEnv ==
    /\ timedOff
    /\ hk = [called |-> FALSE]
    /\ ccacheOff
    /\ fakeClock = [on |-> FALSE]
    /\ env = [on |-> TRUE, vars |-> [n \in EnvNames |-> <<>>],
              call |-> "", arg |-> <<>>, res |-> 0]

NextEnv ==
    \/ \E name \in EnvNames, value \in EnvValues : Setenv(name, value)
    \/ CallWAFTimeoutFromEnv
    \/ CallRateLimitFromEnv

\* A variable is set, then the readers are called.
SpecEnv == InitEnv /\ [][NextEnv]_vars

\* ------------------------------------------------------------ claims: appsec configuration

\* The value was written with decimal digits only.
AllDigits(s) == s # <<>> /\ \A i \in 1..Len(s) : IsDigit(s[i])

\* The number a string of decimal digits denotes.
RECURSIVE Number(_)
Number(s) ==
    IF s = <<>> THEN 0
    ELSE 10 * Number(SubSeq(s, 1, Len(s) - 1)) + DigitVal(s[Len(s)])

\* The text WAFTimeoutFromEnv reads for a value: without a unit letter at
\* its end the value is in microseconds.
TimeoutText(s) ==
    IF s # <<>> /\ ~IsLetter(s[Len(s)]) THEN s \o <<"u", "s">> ELSE s

\* C21: RateLimitFromEnv and WAFTimeoutFromEnv return their default when the
\* value of their variable is empty, unparsable, zero or negative, and the
\* parsed value otherwise; a timeout without a unit letter is in microseconds.
C21_EnvDefaults ==
    /\ env.on
    /\ env.call = "RateLimitFromEnv" =>
           env.res = IF AllDigits(env.arg) /\ Number(env.arg) \in 1..maxUint
                     THEN Number(env.arg)
                     ELSE DefaultTraceRate
    /\ env.call = "WAFTimeoutFromEnv" =>
           LET parsed == ParseDuration(TimeoutText(env.arg))
           IN  /\ env.res = IF env.arg = <<>> \/ parsed.err \/ parsed.d <= 0
                            THEN DefaultWAFTimeout
                            ELSE parsed.d
               /\ (env.arg # <<>> /\ env.arg[1] = "-") => env.res = DefaultWAFTimeout
               /\ (AllDigits(env.arg) /\ Number(env.arg) > 0) =>
                      env.res = Number(env.arg) * 1000
               /\ (AllDigits(env.arg) /\ Number(env.arg) = 0) =>
                      env.res = DefaultWAFTimeout

\* WAFTimeoutFromEnv returned the 15 microseconds of the value "15".
C21_Witness ==
    /\ env.on
    /\ env.call = "WAFTimeoutFromEnv"
    /\ env.arg = <<"1", "5">>
    /\ env.res = 15000

\* ------------------------------------------------------------ claims: table entries and rebuilds

\* Every table a thread can hold: the published ones and the copies being
\* built.
AllTables ==
    {tables[t] : t \in 1..Len(tables)}
        \cup {th[p].nt : p \in {q \in procs : th[q].pc = "publish"}}

OpenPeers(p) ==
    {q \in procs \ {p} :
        th[q].key = th[p].key /\ th[q].pc \in {"find", "claim", "load", "cas"}}

\* C23: a Hit that saw its key's interval elapsed, lost the accepting
\* compare-and-swap and returns false overlaps a Hit on the same key that
\* returns true.
C23_Original ==
    \A p \in procs :
        (th[p].pc = "done" /\ th[p].lostAcc) =>
            (th[p].peerTrue \/ OpenPeers(p) # {})

\* The step is one of the two steps of Hit by thread p that write an entry.
HitWrites(p) == HitClaim(p) \/ HitCas(p)

\* The step of thread p writes only the slot it located: both halves become
\* its own now when it takes the sample, otherwise at most the access half
\* does.
WritesOwnSlot(p) ==
    LET t == th[p].t
        s == th[p].slot
        n == th[p].now
        old == tables[t].entries[s]
        new == tables'[t].entries[s]
    IN  /\ Len(tables') = Len(tables)
        /\ \A u \in 1..Len(tables) : \A i \in Slots :
               (u # t \/ i # s) => tables'[u].entries[i] = tables[u].entries[i]
        /\ th'[p].res => new.Data = newEntryData(n, n)
        /\ ~th'[p].res =>
               /\ new.Key = old.Key
               /\ SampleTime(new.Data) = SampleTime(old.Data)
               /\ new.Data = old.Data \/ AccessTime(new.Data) = n

\* The slot thread p writes holds its key, or is the overflow slot of a full
\* table.
OwnEntry(p) ==
    \/ tables' = tables
    \/ th[p].slot = capacity
    \/ tables'[th[p].t].entries[th[p].slot].Key = th[p].key

\* No step but the two writing ones changes an entry of a table.
OthersKeepEntries ==
    (\A p \in Procs : ~HitWrites(p)) =>
        \A u \in 1..Len(tables) : tables'[u] = tables[u]

\* The frame of Hit without the condition on whose entry is written.
HitFrame ==
    [][/\ \A p \in Procs : HitWrites(p) => WritesOwnSlot(p)
       /\ OthersKeepEntries]_vars

\* C24: a Hit that returns false changes at most the accessTime half of its
\* key's entry, to its own now, and no other entry; a Hit that returns true
\* sets both halves of its key's entry to its own now.
C24_Original ==
    [][/\ \A p \in Procs : HitWrites(p) => (WritesOwnSlot(p) /\ OwnEntry(p))
       /\ OthersKeepEntries]_vars

\* The j-th slot probed for a key.
ProbeSlot(key, j) == ((key % capacity) + j) % capacity

\* The turns of the probing at which the slot is empty or holds the key.
Stops(t, key) ==
    {j \in 0..(capacity - 1) : t.entries[ProbeSlot(key, j)].Key \in {0, key}}

\* Thread p has its answer from FindEntry.
Found(p) == p \in procs /\ th[p].pc \in {"load", "claim"}

\* The answer thread p got is the first probed slot that is empty or holds
\* its key, with true iff it holds the key, and the overflow slot with true
\* if there is no such slot.
FirstStop(p) ==
    LET t == TableOf(p)
        key == th[p].key
        exists == th[p].pc = "load"
    IN  IF Stops(t, key) = {}
        THEN th[p].slot = capacity /\ exists
        ELSE LET j == CHOOSE m \in Stops(t, key) : \A n \in Stops(t, key) : m <= n
             IN  /\ th[p].slot = ProbeSlot(key, j)
                 /\ exists <=> t.entries[th[p].slot].Key = key

\* C25: FindEntry(key) returns the first slot, probing from key mod capacity
\* and wrapping within the probe slots, that is empty or holds key, with true
\* iff it holds key; the overflow slot with true if every probe slot holds
\* another key; and it does not modify the table.
C25_FindEntryProbe ==
    /\ [](\A p \in Procs : Found(p) => FirstStop(p))
    /\ [][\A p \in Procs : HitFind(p) => tables' = tables]_vars

\* FindEntry has wrapped past an occupied last probe slot and returned an
\* earlier slot that holds the key.
C25_Witness ==
    \E p \in Procs :
        /\ Found(p)
        /\ th[p].pc = "load"
        /\ th[p].slot < th[p].key % capacity
        /\ th[p].probes > 1

\* Thread p holds the table PrunedCopy returned, not yet published.
Pruned(p) == p \in procs /\ th[p].pc = "publish"

\* The threshold thread p passed to PrunedCopy.
ThresholdOf(p) == SubU(th[p].now, dedup.intervalSeconds)

\* The entries of table t that hold a key.
EntriesOf(t) == {t.entries[i] : i \in {j \in Slots : t.entries[j].Key # 0}}

\* The entries of t that are not expired at the threshold.
LiveAt(t, threshold) == {e \in EntriesOf(t) : SampleTime(e.Data) >= threshold}

\* The smaller of two numbers.
Min(a, b) == IF a < b THEN a ELSE b

\* C26: PrunedCopy(threshold) returns a table that holds only non-empty
\* entries of the source with sampleTime >= threshold, namely the keepCount of
\* them with the highest accessTime (all if there are fewer), each with its
\* key and packed data unchanged and each found by FindEntry in the new table.
C26_PrunedCopyKeepsRecent ==
    \A p \in Procs : Pruned(p) =>
        LET live == LiveAt(TableOf(p), ThresholdOf(p))
            kept == EntriesOf(th[p].nt)
        IN  /\ kept \subseteq live
            /\ Cardinality(kept) = Min(keepCount, Cardinality(live))
            /\ \A e \in kept : \A d \in live \ kept :
                   AccessTime(e.Data) >= AccessTime(d.Data)
            /\ \A e \in kept :
                   LET r == FindEntry(th[p].nt, e.Key)
                   IN  r.exists /\ r.idx # capacity /\ th[p].nt.entries[r.idx] = e

\* PrunedCopy has dropped an expired entry and, for want of room, a live one
\* accessed as recently as one it kept.
C26_Witness ==
    \E p \in Procs :
        /\ Pruned(p)
        /\ EntriesOf(TableOf(p)) # LiveAt(TableOf(p), ThresholdOf(p))
        /\ \E e \in EntriesOf(th[p].nt) :
           \E d \in LiveAt(TableOf(p), ThresholdOf(p)) \ EntriesOf(th[p].nt) :
               AccessTime(e.Data) = AccessTime(d.Data)

\* Table t counts its occupied slots, holds at most keepCount entries, and
\* neither it nor it with one more key exceeds the rebuild trigger.
BelowTrigger(t) ==
    /\ t.count = Cardinality({i \in Slots : t.entries[i].Key # 0})
    /\ t.count <= keepCount
    /\ ~(t.count > MaxItemCount)
    /\ ~(t.count + 1 > MaxItemCount)

\* C27: the count of a table produced by PrunedCopy is the number of its
\* occupied slots and at most MaxItemCount*2/3, strictly below the rebuild
\* trigger: a freshly published table does not trigger another rebuild.
C27_PrunedCountBelowTrigger ==
    /\ \A p \in Procs : Pruned(p) => BelowTrigger(th[p].nt)
    /\ current > 1 => BelowTrigger(tables[current])

\* A table pruned down to keepCount entries, from a source that held more
\* live ones, has been published.
C27_Witness ==
    /\ current > 1
    /\ tables[current].count = keepCount
    /\ Cardinality(LiveAt(tables[1], SubU(clock, dedup.intervalSeconds))) > keepCount

\* The step is a step of the rebuild thread p has started or is starting.
RebuildStep(p) == HitCheck(p) \/ HitPrune(p) \/ HitPublish(p)

\* The step leaves every entry and the count of every existing table, and
\* the deduplicator's other fields, as they were.
SourceKept ==
    /\ Len(tables') >= Len(tables)
    /\ \A u \in 1..Len(tables) : tables'[u] = tables[u]
    /\ UNCHANGED <<zeroKey, dedup, clock>>

\* C28: a rebuild does not mutate the table it copies from: PrunedCopy
\* leaves the entries and the count of the source unchanged, and the rebuild
\* changes no shared state but the current-table pointer and the rebuilding
\* flag.
C28_RebuildKeepsSource ==
    [][\A p \in Procs :
          /\ RebuildStep(p) => SourceKept
          /\ HitPrune(p) => UNCHANGED <<tables, current, rebuilding>>]_vars

\* A rebuild of the first table has been published while another thread
\* still works on that table, which holds all its entries.
C28_Witness ==
    /\ current > 1
    /\ tables[1].count > MaxItemCount
    /\ tables[1].count = Cardinality({i \in Slots : tables[1].entries[i].Key # 0})
    /\ \E p \in procs : th[p].pc \in {"find", "claim", "load", "cas"} /\ th[p].t = 1

\* C29: every rebuild completes: a thread that has set the rebuilding flag
\* eventually publishes its pruned table and resets the flag, the flag is
\* set only while some thread is rebuilding, and a later overflow rebuilds
\* again.
C29_RebuildCompletes ==
    /\ [](rebuilding <=> Rebuilders # {})
    /\ [][\A p \in Procs : HitPublish(p) =>
              /\ ~rebuilding'
              /\ current' = Len(tables')
              /\ tables'[current'] = th[p].nt]_vars
    /\ rebuilding ~> ~rebuilding

\* A second rebuild has been started after the first one was published.
C29_Witness ==
    /\ Len(tables) > 1
    /\ rebuilding
    /\ \E p \in procs : th[p].pc = "prune" /\ th[p].t = current /\ current > 1

\* The current table holds more items than the rebuild trigger allows.
Overfull == tables[current].count > MaxItemCount

\* C30: when Hit calls bring more distinct keys than the table may hold, a
\* rebuild is eventually started and published: the current table does not
\* stay over its limit, with new keys sent to the overflow slot, for ever.
C30_OverflowRebuilds ==
    /\ Overfull ~> ~Overfull
    /\ [](Overfull => (rebuilding \/ \E p \in procs :
                           th[p].pc = "check" /\ th[p].t = current))

\* A call for a new key was sent to the overflow slot of a full table, and
\* a rebuild of that table has been published since.
C30_Witness ==
    \E p \in procs :
        /\ th[p].pc \in {"load", "cas", "check"}
        /\ th[p].slot = capacity
        /\ th[p].t # current
        /\ tables[th[p].t].count > MaxItemCount
        /\ ~Overfull

\* C31: the threshold now - interval never wraps: whatever the clock value
\* and the interval, a rebuild that leaves an entry out as expired (its
\* sampleTime is below the threshold) does so only when the entry was sampled
\* more than interval seconds before now.  The clock advances by less than
\* TimeMod seconds in a run, so SubU(now, sampleTime) is the true age of an
\* entry.  (C31 as stated.)
ExpiredFor(p) ==
    {e \in EntriesOf(TableOf(p)) : SampleTime(e.Data) < ThresholdOf(p)}

C31_Original ==
    [][\A p \in Procs :
          HitPrune(p) =>
              \A e \in ExpiredFor(p) :
                  SubU(th[p].now, SampleTime(e.Data)) > dedup.intervalSeconds]_vars

\* The probe slots of a table (the overflow slot left out).
ProbeSlots == 0..(capacity - 1)

\* Number of probes FindEntry makes before it looks at slot i for the key.
ProbeOffset(key, i) == (i - (key % capacity) + capacity) % capacity

\* Every slot FindEntry looks at before slot i, and slot i, holds a key.
PathOccupied(t, i) ==
    LET key == t.entries[i].Key IN
    \A j \in 0..ProbeOffset(key, i) : t.entries[ProbeSlot(key, j)].Key # 0

\* No entry that holds a key loses it in this step.
NeverEmptied ==
    \A u \in 1..Len(tables) : \A i \in Slots :
        tables[u].entries[i].Key # 0 => tables'[u].entries[i].Key # 0

\* C32: in every table, published or being built, every probe slot that
\* holds a key is reached by FindEntry for that key: every slot on the cyclic
\* probe path from key mod capacity up to it holds a key, and FindEntry
\* returns that slot with true; and no step empties a slot in place.
C32_ProbePathOccupied ==
    /\ [](\A t \in AllTables : \A i \in ProbeSlots :
              t.entries[i].Key # 0 =>
                  /\ PathOccupied(t, i)
                  /\ FindEntry(t, t.entries[i].Key) =
                         [idx |-> i, exists |-> TRUE,
                          probes |-> ProbeOffset(t.entries[i].Key, i) + 1])
    /\ [][NeverEmptied]_vars

\* The first table was rebuilt while it held a key stored past the last probe
\* slot's wrap: its slot comes before the slot its probing starts at.
C32_Witness ==
    /\ current > 1
    /\ \E i \in ProbeSlots :
           /\ tables[1].entries[i].Key # 0
           /\ i < tables[1].entries[i].Key % capacity

\* No two slots of table t hold the same key.
KeysDistinct(t) ==
    \A i, j \in Slots :
        (i # j /\ t.entries[i].Key # 0) => t.entries[i].Key # t.entries[j].Key

\* Every key that is set in a table is the same after this step.
KeysKept ==
    \A u \in 1..Len(tables) : \A i \in Slots :
        tables[u].entries[i].Key # 0 =>
            tables'[u].entries[i].Key = tables[u].entries[i].Key

\* C33: under any interleaving of concurrent Hit calls and rebuilds, no two
\* slots of the same table hold the same non-zero key, and the key of a slot
\* never changes once it has been set.
C33_KeysUniqueAndFixed ==
    /\ [](\A t \in AllTables : KeysDistinct(t))
    /\ [][KeysKept]_vars

\* A thread that found a slot empty lost it to a call on another key and goes
\* on with that slot, while a third call is in flight.
C33_Witness ==
    \E p \in procs :
        /\ th[p].pc \in {"load", "cas"}
        /\ th[p].t = current
        /\ th[p].slot < capacity
        /\ tables[current].entries[th[p].slot].Key \notin {0, th[p].key}
        /\ \E q \in procs \ {p} : th[q].pc \notin {"idle", "done"}

\* ------------------------------------------------------------ claims: pruning and the recency list

\* The larger of two numbers.
Larger(a, b) == IF a > b THEN a ELSE b

\* The worker applies the promotion of a new item that takes the count past
\* maxCount, and so calls gc.
GcRuns ==
    /\ WorkerPromote
    /\ ~items[Head(promotables)].deleted
    /\ items[Head(promotables)].node = 0
    /\ count + 1 > cc.maxCount

\* The recency list gc starts from, Head first: the new item, then the list.
OrderAtGc == <<Head(promotables)>> \o listOrder(list)

\* The number of items the pass is to remove.
DueAtGc ==
    Min(Larger(cc.itemsToPrune, count + 1 - cc.maxCount), Len(OrderAtGc))

\* The pass removed the last n items of the list, deleted each from its
\* bucket, counted each once and returned n.
GcRemoved(n) ==
    /\ wk'.dropped = wk.dropped + n
    /\ count' = count + 1 - n
    /\ listOrder(list') = SubSeq(OrderAtGc, 1, Len(OrderAtGc) - n)
    /\ \A j \in (Len(OrderAtGc) - n + 1)..Len(OrderAtGc) :
           /\ items'[OrderAtGc[j]].deleted
           /\ items'[OrderAtGc[j]].node = 0
           /\ bucketGet(buckets', items[OrderAtGc[j]].key) = 0

\* C34: each gc pass removes from the tail of the recency list
\* max(itemsToPrune, count - maxCount) items, or the whole list if it is
\* shorter, deletes each from its bucket, decrements count once per removed
\* item and returns the number of items removed.  (C34 as stated.)
C34_Original ==
    [][GcRuns => GcRemoved(DueAtGc)]_vars

\* The items of a sequence of items.
ItemsIn(q) == {q[j] : j \in 1..Len(q)}

\* The items this step puts in the recency list, and those it takes out.
Entering == {i \in 1..Len(items) : items[i].node = 0 /\ items'[i].node # 0}
Leaving == {i \in 1..Len(items) : items[i].node # 0 /\ items'[i].node = 0}

\* The step counts each item once when it enters the list and once when it
\* leaves it, and an item leaves the list marked deleted.
CountedOnce ==
    /\ count' = count + Cardinality(Entering) - Cardinality(Leaving)
    /\ \A i \in Leaving : items'[i].deleted

\* An item marked deleted stays so.
DeletedForGood ==
    \A i \in 1..Len(items) : items[i].deleted => items'[i].deleted

\* C35: an item replaced by Set or pruned by gc never re-enters the recency
\* list.  The worker's processing of its deletion, and a pruning, leave it
\* marked deleted; the mark is never cleared; a marked item is not in the
\* list, whichever of its promotion and its deletion came first; and count
\* goes up once when an item enters the list and down once when it leaves,
\* so it has gone up and down equally often for an item that is marked.
C35_NoReentry ==
    /\ [](\A i \in 1..Len(items) :
              items[i].deleted =>
                  items[i].node = 0 /\ i \notin ItemsIn(listOrder(list)))
    /\ [][DeletedForGood]_vars
    /\ [][WorkerDelete => items'[Head(deletables)].deleted]_vars
    /\ [][(WorkerDelete \/ WorkerPromote) => CountedOnce]_vars

\* The deletion of a replaced item was processed before its promotion, which
\* is still queued: the item is marked deleted and was never in the list.
C35_Witness ==
    \E i \in ItemsIn(promotables) :
        /\ items[i].deleted
        /\ i \notin ItemsIn(hist.applied)
        /\ deletables = <<>>

\* The items this step removes from the buckets.
Unstored ==
    {bucketGet(buckets, k) :
        k \in {key \in cc.keys : /\ bucketGet(buckets, key) # 0
                                 /\ bucketGet(buckets', key) = 0}}

\* C36: gc removes from the buckets only the items it removes from the
\* recency list, never a newer item stored under the key of a pruned item;
\* so once all queued updates are processed, every item in the recency list
\* is the item Get returns for its key.  (C36 as stated.)
C36_Original ==
    /\ [][WorkerPromote => Unstored \subseteq Leaving]_vars
    /\ [](Processed =>
             \A i \in ItemsIn(listOrder(list)) :
                 bucketGet(buckets, items[i].key) = i)

\* C37: between any two worker steps, count is the number of nodes in the
\* recency list, every listed item has deleted = false and a node pointer
\* that refers to its own list node, and no other item has a node.
C37_CountMatchesList ==
    /\ count = Len(listOrder(list))
    /\ Cardinality(ItemsIn(listOrder(list))) = Len(listOrder(list))
    /\ \A i \in ItemsIn(listOrder(list)) :
           /\ i \in 1..Len(items)
           /\ ~items[i].deleted
           /\ items[i].node = i
    /\ Listed(items) = ItemsIn(listOrder(list))

\* The worker has pruned an item and processed a deletion, every queued
\* update is processed and an item is left in the list.
C37_Witness ==
    /\ Processed
    /\ wk.dropped > 0
    /\ hist.procD > 0
    /\ count = 1
    /\ list.Head # 0

\* ------------------------------------------------------------ ccache: linkedList on its own

\* Number of nodes a run inserts.
MaxListNodes == 5

\* Only the list exists: no cache, no worker, no clients.
ListConfig == [on |-> FALSE, maxItems |-> MaxListNodes]

\* The nodes of the list, Head first.
InList == ItemsIn(listOrder(list))

\* newList; items holds the Value of every node allocated so far.
InitList ==
    /\ timedOff
    /\ hk = [called |-> FALSE]
    /\ env = [on |-> FALSE] /\ fakeClock = [on |-> FALSE]
    /\ cc = ListConfig
    /\ items = <<>>
    /\ buckets = <<>>
    /\ list = newList
    /\ count = 0
    /\ deletables = <<>>
    /\ promotables = <<>>
    /\ control = [buf |-> <<>>, closed |-> FALSE]
    /\ wk = [pc |-> "none"]
    /\ cl = <<>>
    /\ msNow = 0
    /\ hist = [on |-> FALSE]

\* list.Insert(value): a new node, placed at the front.
ListInsert ==
    /\ Len(items) < MaxListNodes
    /\ items' = Append(items, [Value |-> Len(items)])
    /\ list' = listInsert(list, Len(items) + 1)
    /\ UNCHANGED <<timed, env, fakeClock, hk, cc, buckets, count, deletables, promotables,
                   control, wk, cl, msNow, hist>>

\* list.Remove(node), for a node of the list.
ListRemove(node) ==
    /\ node \in InList
    /\ list' = listRemove(list, node)
    /\ UNCHANGED <<timed, env, fakeClock, hk, cc, items, buckets, count, deletables,
                   promotables, control, wk, cl, msNow, hist>>

\* list.MoveToFront(node), for a node of the list.
ListMoveToFront(node) ==
    /\ node \in InList
    /\ list' = listMoveToFront(list, node)
    /\ UNCHANGED <<timed, env, fakeClock, hk, cc, items, buckets, count, deletables,
                   promotables, control, wk, cl, msNow, hist>>

NextList ==
    \/ ListInsert
    \/ \E node \in Nodes : ListRemove(node)
    \/ \E node \in Nodes : ListMoveToFront(node)

\* Any sequence of Insert, Remove and MoveToFront on one list.
SpecList == InitList /\ [][NextList]_vars

\* The nodes of the list from Tail to Head, following Prev for at most n nodes.
RECURSIVE walkBack(_, _, _)
walkBack(l, node, n) ==
    IF node = 0 \/ n = 0 THEN <<>> ELSE <<node>> \o walkBack(l, l.Prev[node], n - 1)

\* The sequence without the node.
Without(q, node) == SelectSeq(q, LAMBDA x : x # node)

\* Head.Prev and Tail.Next are nil, an empty list has nil Head and Tail,
\* following Next from Head and Prev from Tail visits the same nodes in
\* opposite orders, each once, and a node outside the list has no links.
WellFormed(l) ==
    LET fwd == walk(l, l.Head, MaxListNodes + 1)
        bwd == walkBack(l, l.Tail, MaxListNodes + 1)
    IN  /\ (l.Head = 0) <=> (l.Tail = 0)
        /\ l.Head # 0 => (l.Prev[l.Head] = 0 /\ l.Next[l.Tail] = 0)
        /\ Len(fwd) = Len(bwd)
        /\ \A j \in 1..Len(fwd) : bwd[j] = fwd[Len(fwd) + 1 - j]
        /\ Cardinality(ItemsIn(fwd)) = Len(fwd)
        /\ \A n \in Nodes \ ItemsIn(fwd) : l.Next[n] = 0 /\ l.Prev[n] = 0

\* C38: after any sequence of Insert, Remove and MoveToFront the list is
\* well formed; Insert and MoveToFront place the node at Head, Remove takes
\* out exactly the given node, and the other nodes keep their relative order.
C38_ListWellFormed ==
    /\ [](WellFormed(list))
    /\ [][ListInsert =>
             listOrder(list') = <<Len(items) + 1>> \o listOrder(list)]_vars
    /\ [][\A node \in Nodes :
             /\ ListRemove(node) =>
                    listOrder(list') = Without(listOrder(list), node)
             /\ ListMoveToFront(node) =>
                    listOrder(list') = <<node>> \o Without(listOrder(list), node)]_vars

\* Three nodes were inserted, the second was removed and the first, the
\* oldest, was moved to the front.
C38_Witness ==
    /\ Len(items) = 3
    /\ listOrder(list) = <<1, 3>>

\* ------------------------------------------------------------ timed/testutil: FakeClock

\* goroutineCount: the goroutines that use the clock.
FakeGoCount == 2

\* Number of WaitForTick calls each goroutine makes.
MaxFakeCalls == 2

\* time.Now().Unix() when the clock is made, scaled; above 0.
FakeStart == 1

\* The goroutines that call WaitForTick.
FakeGos == 1..FakeGoCount

\* A goroutine outside WaitForTick that has made no call yet.
idleGo == [pc |-> "out", curTime |-> 0, calls |-> 0]

\* NewFakeClock(ctx, t, goroutineCount): now is the wall clock, wg.Add(goCount),
\* the ticker goroutine is started; mu tells whether c.cnd.L is locked.  The last fields are history: the
\* goroutines that called WaitForTick since now last went up, and the values
\* of now that a call read and still found when it returned.
InitClock ==
    /\ timedOff
    /\ hk = [called |-> FALSE]
    /\ ccacheOff
    /\ env = [on |-> FALSE]
    /\ fakeClock = [on |-> TRUE, now |-> FakeStart, needTick |-> FALSE,
                    wg |-> FakeGoCount, mu |-> FALSE, waiting |-> {},
                    cancelled |-> FALSE, closed |-> FALSE, done |-> FALSE,
                    panic |-> FALSE, tpc |-> "select",
                    g |-> [i \in FakeGos |-> idleGo],
                    arrived |-> {}, early |-> {}]

\* Every step of the clock leaves the rest of the state alone.
ClockOnly ==
    UNCHANGED <<timed, env, hk, cc, items, buckets, list, count, deletables,
                promotables, control, wk, cl, msNow, hist>>

\* The process runs: no goroutine has panicked.
Running == fakeClock.on /\ ~fakeClock.panic

\* WaitForTick: c.cnd.L.Lock()
WaitForTickLock(i) ==
    /\ Running
    /\ fakeClock.g[i].pc = "out"
    /\ fakeClock.g[i].calls < MaxFakeCalls
    /\ ~fakeClock.mu
    /\ fakeClock' = [fakeClock EXCEPT !.mu = TRUE, !.g[i].pc = "enter",
                                      !.g[i].calls = @ + 1]
    /\ ClockOnly

\* WaitForTick: needTick.CompareAndSwap(false, true); curTime := c.now
WaitForTickEnter(i) ==
    /\ Running
    /\ fakeClock.g[i].pc = "enter"
    /\ fakeClock' = [fakeClock EXCEPT !.needTick = TRUE,
                                      !.g[i].curTime = fakeClock.now,
                                      !.g[i].pc = "wgDone",
                                      !.arrived = @ \cup {i}]
    /\ ClockOnly

\* WaitForTick: c.wg.Done(), which panics when the counter goes below zero.
WaitForTickDone(i) ==
    /\ Running
    /\ fakeClock.g[i].pc = "wgDone"
    /\ fakeClock' = IF fakeClock.wg = 0
                    THEN [fakeClock EXCEPT !.panic = TRUE]
                    ELSE [fakeClock EXCEPT !.wg = @ - 1, !.g[i].pc = "check"]
    /\ ClockOnly

\* WaitForTick: the loop test, then c.cnd.Wait() (the mutex is released and the
\* goroutine suspended) or c.cnd.L.Unlock() and the return.
WaitForTickCheck(i) ==
    /\ Running
    /\ fakeClock.g[i].pc = "check"
    /\ fakeClock' =
           IF fakeClock.g[i].curTime = fakeClock.now /\ fakeClock.now > 0
           THEN [fakeClock EXCEPT !.mu = FALSE, !.waiting = @ \cup {i},
                                  !.g[i].pc = "wait"]
           ELSE [fakeClock EXCEPT
                    !.mu = FALSE, !.g[i].pc = "out",
                    !.early = IF fakeClock.g[i].curTime = fakeClock.now
                              THEN @ \cup {fakeClock.now} ELSE @]
    /\ ClockOnly

\* WaitForTick: c.cnd.Wait() returns: the goroutine was awoken by a Broadcast
\* and has locked the mutex again.
WaitForTickWake(i) ==
    /\ Running
    /\ fakeClock.g[i].pc = "wait"
    /\ i \notin fakeClock.waiting
    /\ ~fakeClock.mu
    /\ fakeClock' = [fakeClock EXCEPT !.mu = TRUE, !.g[i].pc = "check"]
    /\ ClockOnly

\* tick: the select; the default case is taken only while ctx is not done.
TickSelect ==
    /\ Running
    /\ fakeClock.tpc = "select"
    /\ fakeClock' = [fakeClock EXCEPT
                        !.tpc = IF fakeClock.cancelled THEN "stop" ELSE "load"]
    /\ ClockOnly

\* tick: if !c.needTick.Load() { continue }
TickLoad ==
    /\ Running
    /\ fakeClock.tpc = "load"
    /\ fakeClock' = [fakeClock EXCEPT
                        !.tpc = IF fakeClock.needTick THEN "wgWait" ELSE "select"]
    /\ ClockOnly

\* tick: c.wg.Wait() as a ticker that does not wait for the goroutines.
TickWgWaitNot ==
    /\ Running
    /\ fakeClock.tpc = "wgWait"
    /\ fakeClock' = [fakeClock EXCEPT !.tpc = "lock"]
    /\ ClockOnly

\* tick: c.wg.Wait() returns when the counter is zero.
TickWgWait ==
    /\ Running
    /\ fakeClock.tpc = "wgWait"
    /\ fakeClock.wg = 0
    /\ fakeClock' = [fakeClock EXCEPT !.tpc = "lock"]
    /\ ClockOnly

\* tick: c.cnd.L.Lock()
TickLock ==
    /\ Running
    /\ fakeClock.tpc = "lock"
    /\ ~fakeClock.mu
    /\ fakeClock' = [fakeClock EXCEPT !.mu = TRUE, !.tpc = "tick"]
    /\ ClockOnly

\* tick: c.now++, needTick.Store(false), Broadcast, wg.Add(goCount), Unlock.
TickAdvance ==
    /\ Running
    /\ fakeClock.tpc = "tick"
    /\ fakeClock' = [fakeClock EXCEPT !.now = @ + 1, !.needTick = FALSE,
                                      !.waiting = {}, !.wg = @ + FakeGoCount,
                                      !.mu = FALSE, !.tpc = "select",
                                      !.arrived = {}]
    /\ ClockOnly

\* tick, ctx.Done(): Lock, c.now = 0, Unlock.
TickStop ==
    /\ Running
    /\ fakeClock.tpc = "stop"
    /\ ~fakeClock.mu
    /\ fakeClock' = [fakeClock EXCEPT !.now = 0, !.tpc = "close"]
    /\ ClockOnly

\* tick, ctx.Done(): close(c.closed) and return.
TickClose ==
    /\ Running
    /\ fakeClock.tpc = "close"
    /\ fakeClock' = [fakeClock EXCEPT !.closed = TRUE, !.tpc = "stopped"]
    /\ ClockOnly

\* The test cancels the context.
Cancel ==
    /\ Running
    /\ ~fakeClock.cancelled
    /\ fakeClock' = [fakeClock EXCEPT !.cancelled = TRUE]
    /\ ClockOnly

\* WaitUntilDone, called after the cancellation: <-c.closed
WaitUntilDone ==
    /\ Running
    /\ fakeClock.cancelled
    /\ fakeClock.closed
    /\ ~fakeClock.done
    /\ fakeClock' = [fakeClock EXCEPT !.done = TRUE]
    /\ ClockOnly

\* The steps of goroutine i inside and into WaitForTick.
WaitForTick(i) ==
    \/ WaitForTickLock(i)
    \/ WaitForTickEnter(i)
    \/ WaitForTickDone(i)
    \/ WaitForTickCheck(i)
    \/ WaitForTickWake(i)

\* The steps of the ticker goroutine.
tick ==
    \/ TickSelect
    \/ TickLoad
    \/ TickWgWait
    \/ TickLock
    \/ TickAdvance
    \/ TickStop
    \/ TickClose

NextClock ==
    \/ \E i \in FakeGos : WaitForTick(i)
    \/ tick
    \/ Cancel
    \/ WaitUntilDone

\* The goroutines call WaitForTick, the ticker runs, the test cancels the
\* context at any moment and then waits for the ticker.
SpecClock == InitClock /\ [][NextClock]_vars

\* The same, every goroutine that can take a step eventually taking one.
SpecClockLive ==
    /\ SpecClock
    /\ \A i \in 1..FakeGoCount : WF_vars(WaitForTick(i))
    /\ WF_vars(tick)
    /\ WF_vars(WaitUntilDone)

\* ------------------------------------------------------------ claims: FakeClock

\* now goes up in this step.
NowIncreases == fakeClock.on /\ fakeClock'.now > fakeClock.now

\* A round: now goes up by exactly 1, and only after every goroutine has
\* called WaitForTick since it last went up.
Lockstep ==
    [][NowIncreases =>
          /\ fakeClock'.now = fakeClock.now + 1
          /\ fakeClock.arrived = FakeGos]_vars

\* C39 as stated: FakeClock advances in lockstep: now increases by exactly 1
\* per round and only after all goroutineCount goroutines have called
\* WaitForTick since the previous increase, and no WaitForTick call returns
\* before now has changed from the value it observed on entry.
C39_Original ==
    /\ Lockstep
    /\ [](fakeClock.on => fakeClock.early = {})

\* C39, amended: FakeClock advances in lockstep: now increases by exactly 1
\* per round and only after all goroutineCount goroutines have called
\* WaitForTick since the previous increase, and no WaitForTick call that
\* observed a now above 0 on entry returns before now has changed from that
\* value; a call that observes now = 0, which the stopped ticker leaves
\* behind, returns at once.
C39_Lockstep ==
    /\ Lockstep
    /\ [](fakeClock.on => fakeClock.early \subseteq {0})

\* C39 witness: the context is live, now has gone up, and a goroutine is back
\* from a call in which it had read the earlier value.
C39_Witness ==
    /\ fakeClock.on
    /\ ~fakeClock.cancelled
    /\ fakeClock.now > FakeStart
    /\ \E i \in FakeGos :
           /\ fakeClock.g[i].pc = "out"
           /\ fakeClock.g[i].calls > 0
           /\ fakeClock.g[i].curTime < fakeClock.now

\* Goroutine i is suspended in c.cnd.Wait().
Blocked(i) == fakeClock.on /\ fakeClock.g[i].pc = "wait"

\* The ticker has returned and WaitUntilDone has returned.
Stopped == fakeClock.on /\ fakeClock.tpc = "stopped" /\ fakeClock.done

\* C40 as stated: after the context is cancelled the ticker eventually stops
\* and WaitUntilDone returns, and every goroutine blocked in WaitForTick is
\* released.
C40_Original ==
    /\ (fakeClock.on /\ fakeClock.cancelled) ~> Stopped
    /\ \A i \in FakeGos :
           (fakeClock.cancelled /\ Blocked(i)) ~> ~Blocked(i)

====
